---- MODULE Spec2Model ----
(***************************************************************************)
(* A state-machine model of src/youtube_api.py: the three-tier channel     *)
(* resolution (get_channel_info), the video fetch (get_channel_videos),    *)
(* the synthetic history generator (generate_historical_data) and the      *)
(* aggregator (get_comprehensive_stats).                                   *)
(*                                                                         *)
(* Every blocking request.execute() is one step of the model: the action   *)
(* that consumes its response chooses that response among everything the   *)
(* transport can answer (an exception, a body without 'items', an empty    *)
(* or a non-empty item list) and runs the code up to the next execute().   *)
(*                                                                         *)
(* Python strings whose content the code inspects or builds (identifiers,  *)
(* ids, count literals) are sequences of one-character strings.  Opaque    *)
(* payload (titles, dates of publication) is an atomic string.             *)
(***************************************************************************)
EXTENDS Integers, Sequences, FiniteSets, TLC

VARIABLES
    pc,                  \* the execute() the running call is blocked on
    entry,               \* the method the caller invoked
    argument,            \* the argument the caller passed to it
    result,              \* what the caller got back: a value or an exception
    outcome,             \* what the last finished method returned or raised
    channel_identifier,  \* get_channel_info's local (re-assigned by the strip)
    calls,               \* requests the running method has issued, in order
    responses,           \* what the transport answered to them, in order
    video_ids,           \* get_channel_videos' local: the ids the listing gave
    channel_data,        \* the channel get_comprehensive_stats resolved
    videos,              \* the videos get_comprehensive_stats fetched
    i,                   \* generate_historical_data's loop variable
    subscriber_history,  \* generate_historical_data's three lists
    view_history,
    video_history,
    clock,               \* the wall clock datetime.now() reads, in hours
    rng,                 \* the module-level random generator's stream
    running,             \* the caller whose call the variables above belong to
    suspended,           \* the locals of the other caller's call
    log,                 \* what the running call has received so far
    switches,            \* the thread switches so far
    session_state,       \* the dashboard's st.session_state
    shown,               \* what the dashboard's last run showed for its search
    searches             \* the searches the dashboard has run

histvars == <<i, subscriber_history, view_history, video_history>>

callers == <<running, suspended, log, switches>>

dashboard == <<session_state, shown, searches>>

vars == <<pc, entry, argument, result, outcome, channel_identifier, calls, responses,
          video_ids, channel_data, videos, histvars, clock, rng, callers, dashboard>>

----------------------------------------------------------------------------
(* Bounds of the model *)

MaxIdLen == 2

MaxVideos == 2

----------------------------------------------------------------------------
(* Strings *)

IdChars == {"@", "a"}

SeqsUpTo(S, n) == UNION {[1..k -> S] : k \in 0..n}

Identifiers == SeqsUpTo(IdChars, MaxIdLen)

\* str.startswith('@')
startswith_at(s) == Len(s) > 0 /\ s[1] = "@"

\* the identifier left as it was passed
strip_at_keeps(s) == s

\* lines 38-39: remove one leading '@'
strip_at(s) == IF startswith_at(s) THEN SubSeq(s, 2, Len(s)) ELSE s

Digits == {"0", "1", "2", "3", "4", "5", "6", "7", "8", "9"}

DigitValue(c) ==
    CASE c = "0" -> 0 [] c = "1" -> 1 [] c = "2" -> 2 [] c = "3" -> 3
      [] c = "4" -> 4 [] c = "5" -> 5 [] c = "6" -> 6 [] c = "7" -> 7
      [] c = "8" -> 8 [] c = "9" -> 9

\* whether int(s) accepts the decimal literal s (the model's literals carry
\* no sign, blank or underscore)
IsIntLiteral(s) == Len(s) > 0 /\ \A k \in 1..Len(s) : s[k] \in Digits

RECURSIVE ParseInt(_)
ParseInt(s) ==
    IF Len(s) = 0 THEN 0
    ELSE 10 * ParseInt(SubSeq(s, 1, Len(s) - 1)) + DigitValue(s[Len(s)])

----------------------------------------------------------------------------
(* Exceptions and their messages.  A message is a sequence of fragments:   *)
(* [lit |-> text] a literal of the source, [chars |-> s] a run-time string *)
(* interpolated into it, [status |-> n] an HTTP status rendered in it.     *)

Lit(text) == <<[lit |-> text]>>

Chars(s) == <<[chars |-> s]>>

Exc(type, status, msg) == [type |-> type, status |-> status, msg |-> msg]

ValueError(msg) == Exc("ValueError", 0, msg)

KeyError(key) == Exc("KeyError", 0, Lit("'") \o Lit(key) \o Lit("'"))

\* googleapiclient.errors.HttpError: e.resp.status and str(e)
HttpError(status) ==
    Exc("HttpError", status,
        Lit("<HttpError ") \o <<[status |-> status]>>
            \o Lit(" when requesting (uri) returned (reason)>"))

\* a transport failure that is no HTTP response (connection refused, timeout)
NetworkError == Exc("OSError", 0, Lit("(network failure)"))

HttpStatuses == {403, 404, 500}

TransportErrors == {HttpError(s) : s \in HttpStatuses} \cup {NetworkError}

\* str(e)
str(e) == e.msg

----------------------------------------------------------------------------
(* The caller's view of an error.  Every error of the module is a          *)
(* ValueError; the one caller that tells errors apart, the dashboard,      *)
(* searches the message for "quota", "403", "not found", "404", "api key". *)

\* the searched words that occur in a literal of the source (lower-cased)
LitMentions(text) ==
    CASE text = "' not found. Please check the channel ID or username." -> {"not found"}
      [] text = "' not found" -> {"not found"}
      [] text = "Channel not found" -> {"not found"}
      [] text = "API quota exceeded or invalid API key. Please check your API key and quota."
            -> {"quota", "api key"}
      [] OTHER -> {}

NeedleChars(needle) ==
    CASE needle = "quota" -> <<"q", "u", "o", "t", "a">>
      [] needle = "403" -> <<"4", "0", "3">>
      [] needle = "not found" -> <<"n", "o", "t", " ", "f", "o", "u", "n", "d">>
      [] needle = "404" -> <<"4", "0", "4">>
      [] needle = "api key" -> <<"a", "p", "i", " ", "k", "e", "y">>

\* needle in s, for a run-time string s
Substring(needle, s) ==
    \E k \in 1..(Len(s) - Len(needle) + 1) : SubSeq(s, k, k + Len(needle) - 1) = needle

FragmentMentions(fragment, needle) ==
    IF "lit" \in DOMAIN fragment THEN needle \in LitMentions(fragment.lit)
    ELSE IF "chars" \in DOMAIN fragment THEN Substring(NeedleChars(needle), fragment.chars)
    ELSE (needle = "403" /\ fragment.status = 403)
             \/ (needle = "404" /\ fragment.status = 404)

\* needle in error_msg.lower(), needle in error_msg
Mentions(msg, needle) == \E k \in 1..Len(msg) : FragmentMentions(msg[k], needle)

\* src/streamlit_app.py lines 201-212: the branch the dashboard takes
ErrorKind(msg) ==
    IF Mentions(msg, "quota") \/ Mentions(msg, "403") THEN "quota"
    ELSE IF Mentions(msg, "not found") \/ Mentions(msg, "404") THEN "not found"
    ELSE IF Mentions(msg, "api key") THEN "api key"
    ELSE "other"

----------------------------------------------------------------------------
(* What the transport can answer *)

Raises(e) == [raises |-> TRUE, exc |-> e]

Body(b) == [raises |-> FALSE, body |-> b]

NoItemsBody == [kind |-> "youtube#response"]

ItemsBody(items) == [kind |-> "youtube#response", items |-> items]

ChannelX ==
    [id |-> <<"X">>,
     snippet |-> [title |-> "title X", description |-> "about X",
                  customUrl |-> "@x", publishedAt |-> "2010-01-01T00:00:00Z",
                  thumbnails |-> "thumbnails X"],
     statistics |-> [subscriberCount |-> <<"1", "0", "0", "0">>,
                     viewCount |-> <<"1", "0", "0", "0", "0">>,
                     videoCount |-> <<"1", "0">>],
     brandingSettings |-> [channel |-> "branding X"]]

\* hidden subscriber count, no custom URL, no branding settings
ChannelY ==
    [id |-> <<"Y">>,
     snippet |-> [title |-> "title Y", description |-> "about Y",
                  publishedAt |-> "2015-06-01T00:00:00Z",
                  thumbnails |-> "thumbnails Y"],
     statistics |-> [viewCount |-> <<"2", "0">>, videoCount |-> <<"0">>]]

ChannelNoSnippet ==
    [id |-> <<"X">>,
     statistics |-> [subscriberCount |-> <<"5">>, viewCount |-> <<"7">>,
                     videoCount |-> <<"1">>]]

ChannelBadCount ==
    [id |-> <<"Y">>,
     snippet |-> [title |-> "title Y", description |-> "about Y",
                  publishedAt |-> "2015-06-01T00:00:00Z",
                  thumbnails |-> "thumbnails Y"],
     statistics |-> [subscriberCount |-> <<"1", "k">>, viewCount |-> <<"2", "0">>,
                     videoCount |-> <<"0">>]]

\* a record whose statistics carry neither viewCount nor videoCount
ChannelZ ==
    [id |-> <<"X">>,
     snippet |-> [title |-> "title Z", description |-> "about Z",
                  publishedAt |-> "2020-02-29T00:00:00Z",
                  thumbnails |-> "thumbnails Z"],
     statistics |-> [subscriberCount |-> <<"1", "0">>]]

ChannelRecords == {ChannelX, ChannelY, ChannelZ, ChannelNoSnippet, ChannelBadCount}

\* channels().list(id=one id) and channels().list(forUsername=...) answer
\* with no item or with one
ChannelsListResponses ==
    {Raises(e) : e \in TransportErrors}
        \cup {Body(NoItemsBody), Body(ItemsBody(<<>>))}
        \cup {Body(ItemsBody(<<r>>)) : r \in ChannelRecords}

StubX == [id |-> [kind |-> "youtube#channel", channelId |-> <<"X">>],
          snippet |-> [title |-> "stub X", description |-> "stub about X"]]

StubY == [id |-> [kind |-> "youtube#channel", channelId |-> <<"Y">>],
          snippet |-> [title |-> "stub Y", description |-> "stub about Y"]]

StubNoChannelId == [id |-> [kind |-> "youtube#channel"],
                    snippet |-> [title |-> "stub", description |-> "stub"]]

SearchStubs == {StubX, StubY, StubNoChannelId}

\* search().list(maxResults=1) answers with no item or with one
SearchListResponses ==
    {Raises(e) : e \in TransportErrors}
        \cup {Body(NoItemsBody), Body(ItemsBody(<<>>))}
        \cup {Body(ItemsBody(<<s>>)) : s \in SearchStubs}

----------------------------------------------------------------------------
(* Requests *)

ChannelParts == "snippet,statistics,brandingSettings"

ChannelsListById(id) == [api |-> "channels.list", part |-> ChannelParts, id |-> id]

ChannelsListForUsername(name) ==
    [api |-> "channels.list", part |-> ChannelParts, forUsername |-> name]

SearchList(q) ==
    [api |-> "search.list", part |-> "snippet", q |-> q, type |-> "channel",
     maxResults |-> 1]

----------------------------------------------------------------------------
(* _format_channel_data *)

SnippetKeys == {"title", "description", "publishedAt", "thumbnails"}

\* int(statistics.get(key, 0)) raises on a literal int() rejects
CountRaises(statistics, key) ==
    key \in DOMAIN statistics /\ ~IsIntLiteral(statistics[key])

\* an absent count read as 1
Count_absent_is_one(statistics, key) ==
    IF key \in DOMAIN statistics THEN ParseInt(statistics[key]) ELSE 1

Count(statistics, key) ==
    IF key \in DOMAIN statistics THEN ParseInt(statistics[key]) ELSE 0

CountKeys == {"subscriberCount", "viewCount", "videoCount"}

\* whether _format_channel_data raises (KeyError, ValueError)
format_channel_data_raises(channel_record) ==
    \/ "id" \notin DOMAIN channel_record
    \/ "snippet" \notin DOMAIN channel_record
    \/ ("snippet" \in DOMAIN channel_record
            /\ ~(SnippetKeys \subseteq DOMAIN channel_record.snippet))
    \/ "statistics" \notin DOMAIN channel_record
    \/ ("statistics" \in DOMAIN channel_record
            /\ \E key \in CountKeys : CountRaises(channel_record.statistics, key))

EmptyDict == [key \in {} |-> ""]

format_channel_data(channel_record) ==
    [id |-> channel_record.id,
     title |-> channel_record.snippet.title,
     description |-> channel_record.snippet.description,
     custom_url |-> IF "customUrl" \in DOMAIN channel_record.snippet
                    THEN channel_record.snippet.customUrl ELSE "",
     published_at |-> channel_record.snippet.publishedAt,
     thumbnails |-> channel_record.snippet.thumbnails,
     statistics |-> channel_record.statistics,
     branding_settings |-> IF "brandingSettings" \in DOMAIN channel_record
                           THEN channel_record.brandingSettings ELSE EmptyDict,
     subscriber_count |-> Count(channel_record.statistics, "subscriberCount"),
     view_count |-> Count(channel_record.statistics, "viewCount"),
     video_count |-> Count(channel_record.statistics, "videoCount")]

----------------------------------------------------------------------------
(* Outcomes of a method *)

NoOutcome == [status |-> "none"]

Returned(value) == [status |-> "returned", value |-> value]

Raised(exc) == [status |-> "raised", exc |-> exc]

----------------------------------------------------------------------------
(* get_channel_info *)

Found(channel) == [found |-> TRUE, channel |-> channel]

NotFound == [found |-> FALSE]

\* the lookup's `return` left out
try_lookup_falls_through(response) == NotFound

\* lines 47-52, 60-65 and 85-90: the body of a lookup's try block once
\* execute() has answered, under `except Exception: pass`
try_lookup(response) ==
    IF response.raises THEN NotFound
    ELSE IF "items" \notin DOMAIN response.body THEN NotFound
    ELSE IF response.body.items = <<>> THEN NotFound
    ELSE IF format_channel_data_raises(response.body.items[1]) THEN NotFound
    ELSE Found(format_channel_data(response.body.items[1]))

Hit(channel_id) == [hit |-> TRUE, channel_id |-> channel_id]

NoHit == [hit |-> FALSE]

\* lines 75-78: the search's answer up to the channel id of its top item
try_search(response) ==
    IF response.raises THEN NoHit
    ELSE IF "items" \notin DOMAIN response.body THEN NoHit
    ELSE IF response.body.items = <<>> THEN NoHit
    ELSE IF "id" \notin DOMAIN response.body.items[1] THEN NoHit
    ELSE IF "channelId" \notin DOMAIN response.body.items[1].id THEN NoHit
    ELSE Hit(response.body.items[1].id.channelId)

\* line 92
ChannelNotFound(identifier) ==
    ValueError(Lit("Channel '") \o Chars(identifier)
        \o Lit("' not found. Please check the channel ID or username."))

\* lines 94-102: the handlers of the outer try
get_channel_info_except(e, identifier) ==
    IF e.type = "HttpError"
    THEN IF e.status = 403
         THEN ValueError(Lit("API quota exceeded or invalid API key. Please check your API key and quota."))
         ELSE IF e.status = 404
         THEN ValueError(Lit("Channel '") \o Chars(identifier) \o Lit("' not found"))
         ELSE ValueError(Lit("API Error: ") \o str(e))
    ELSE ValueError(Lit("Error fetching channel info: ") \o str(e))

AfterLabel(method) ==
    CASE method = "get_channel_info" -> "after_get_channel_info"
      [] method = "get_channel_videos" -> "after_get_channel_videos"
      [] method = "generate_historical_data" -> "after_generate_historical_data"

\* a method ends: its caller is the user of the API or get_comprehensive_stats
Finish(method, o) ==
    /\ outcome' = o
    /\ IF entry = method
       THEN pc' = "done" /\ result' = o
       ELSE pc' = AfterLabel(method) /\ UNCHANGED result

\* lines 36-47: strip, then the by-ID request
enter_get_channel_info(identifier) ==
    /\ channel_identifier' = strip_at(identifier)
    /\ calls' = <<ChannelsListById(strip_at(identifier))>>
    /\ responses' = <<>>
    /\ pc' = "tier1"

call_get_channel_info ==
    /\ pc = "idle"
    /\ \E identifier \in Identifiers :
        /\ entry' = "get_channel_info"
        /\ argument' = identifier
        /\ enter_get_channel_info(identifier)
    /\ UNCHANGED <<result, outcome, video_ids, channel_data, videos, histvars, clock, rng>>

\* the by-ID lookup with a transport exception handed to the outer handlers
get_channel_info_tier1_propagates ==
    /\ pc = "tier1"
    /\ \E response \in ChannelsListResponses :
        /\ responses' = Append(responses, response)
        /\ IF response.raises
           THEN /\ Finish("get_channel_info",
                        Raised(get_channel_info_except(response.exc, channel_identifier)))
                /\ UNCHANGED calls
           ELSE IF try_lookup(response).found
           THEN /\ Finish("get_channel_info", Returned(try_lookup(response).channel))
                /\ UNCHANGED calls
           ELSE /\ calls' = Append(calls, ChannelsListForUsername(channel_identifier))
                /\ pc' = "tier2"
                /\ UNCHANGED <<result, outcome>>
    /\ UNCHANGED <<entry, argument, channel_identifier, video_ids, channel_data, videos, histvars, clock, rng>>

\* the by-username lookup and the search issued together
get_channel_info_tier1_parallel ==
    /\ pc = "tier1"
    /\ \E response \in ChannelsListResponses :
        /\ responses' = Append(responses, response)
        /\ IF try_lookup(response).found
           THEN /\ Finish("get_channel_info", Returned(try_lookup(response).channel))
                /\ UNCHANGED calls
           ELSE /\ calls' = calls \o <<ChannelsListForUsername(channel_identifier),
                                       SearchList(channel_identifier)>>
                /\ pc' = "tier2"
                /\ UNCHANGED <<result, outcome>>
    /\ UNCHANGED <<entry, argument, channel_identifier, video_ids, channel_data, videos, histvars, clock, rng>>

\* the by-ID lookup with _format_channel_data called outside the tier's try
get_channel_info_tier1_format_unguarded ==
    /\ pc = "tier1"
    /\ \E response \in ChannelsListResponses :
        /\ responses' = Append(responses, response)
        /\ IF /\ ~response.raises
              /\ "items" \in DOMAIN response.body
              /\ response.body.items # <<>>
              /\ format_channel_data_raises(response.body.items[1])
           THEN /\ Finish("get_channel_info",
                        Raised(get_channel_info_except(KeyError("snippet"), channel_identifier)))
                /\ UNCHANGED calls
           ELSE IF try_lookup(response).found
           THEN /\ Finish("get_channel_info", Returned(try_lookup(response).channel))
                /\ UNCHANGED calls
           ELSE /\ calls' = Append(calls, ChannelsListForUsername(channel_identifier))
                /\ pc' = "tier2"
                /\ UNCHANGED <<result, outcome>>
    /\ UNCHANGED <<entry, argument, channel_identifier, video_ids, channel_data, videos, histvars, clock, rng>>

\* lines 47-60: the by-ID answer, then the by-username request
get_channel_info_tier1 ==
    /\ pc = "tier1"
    /\ \E response \in ChannelsListResponses :
        /\ responses' = Append(responses, response)
        /\ IF try_lookup(response).found
           THEN /\ Finish("get_channel_info", Returned(try_lookup(response).channel))
                /\ UNCHANGED calls
           ELSE /\ calls' = Append(calls, ChannelsListForUsername(channel_identifier))
                /\ pc' = "tier2"
                /\ UNCHANGED <<result, outcome>>
    /\ UNCHANGED <<entry, argument, channel_identifier, video_ids, channel_data, videos, histvars, clock, rng>>

\* the by-username lookup with a transport exception handed to the outer handlers
get_channel_info_tier2_propagates ==
    /\ pc = "tier2"
    /\ \E response \in ChannelsListResponses :
        /\ responses' = Append(responses, response)
        /\ IF response.raises
           THEN /\ Finish("get_channel_info",
                        Raised(get_channel_info_except(response.exc, channel_identifier)))
                /\ UNCHANGED calls
           ELSE IF try_lookup(response).found
           THEN /\ Finish("get_channel_info", Returned(try_lookup(response).channel))
                /\ UNCHANGED calls
           ELSE /\ calls' = Append(calls, SearchList(channel_identifier))
                /\ pc' = "tier3"
                /\ UNCHANGED <<result, outcome>>
    /\ UNCHANGED <<entry, argument, channel_identifier, video_ids, channel_data, videos, histvars, clock, rng>>

\* lines 60-75: the by-username answer, then the search request
get_channel_info_tier2 ==
    /\ pc = "tier2"
    /\ \E response \in ChannelsListResponses :
        /\ responses' = Append(responses, response)
        /\ IF try_lookup(response).found
           THEN /\ Finish("get_channel_info", Returned(try_lookup(response).channel))
                /\ UNCHANGED calls
           ELSE /\ calls' = Append(calls, SearchList(channel_identifier))
                /\ pc' = "tier3"
                /\ UNCHANGED <<result, outcome>>
    /\ UNCHANGED <<entry, argument, channel_identifier, video_ids, channel_data, videos, histvars, clock, rng>>

\* a channel built from a search item, which carries no statistics
format_search_item(item) ==
    [id |-> item.id.channelId,
     title |-> item.snippet.title,
     description |-> item.snippet.description,
     custom_url |-> "",
     published_at |-> "",
     thumbnails |-> "",
     statistics |-> EmptyDict,
     branding_settings |-> EmptyDict,
     subscriber_count |-> 0,
     view_count |-> 0,
     video_count |-> 0]

\* the search's top hit returned as it is, without the detail lookup
get_channel_info_tier3_returns_stub ==
    /\ pc = "tier3"
    /\ \E response \in SearchListResponses :
        /\ responses' = Append(responses, response)
        /\ IF try_search(response).hit
           THEN Finish("get_channel_info",
                    Returned(format_search_item(response.body.items[1])))
           ELSE Finish("get_channel_info",
                    Raised(get_channel_info_except(
                        ChannelNotFound(channel_identifier), channel_identifier)))
    /\ UNCHANGED <<entry, argument, channel_identifier, calls, video_ids, channel_data,
                   videos, histvars, clock, rng>>

\* lines 75-85 and 92-102: the search's answer, then the detail request for
\* its top hit; without a hit, the not-found error through the handler
get_channel_info_tier3 ==
    /\ pc = "tier3"
    /\ \E response \in SearchListResponses :
        /\ responses' = Append(responses, response)
        /\ IF try_search(response).hit
           THEN /\ calls' = Append(calls, ChannelsListById(try_search(response).channel_id))
                /\ pc' = "tier3_detail"
                /\ UNCHANGED <<result, outcome>>
           ELSE /\ Finish("get_channel_info",
                        Raised(get_channel_info_except(
                            ChannelNotFound(channel_identifier), channel_identifier)))
                /\ UNCHANGED calls
    /\ UNCHANGED <<entry, argument, channel_identifier, video_ids, channel_data, videos, histvars, clock, rng>>

\* lines 85-102: the detail answer
get_channel_info_tier3_detail ==
    /\ pc = "tier3_detail"
    /\ \E response \in ChannelsListResponses :
        /\ responses' = Append(responses, response)
        /\ IF try_lookup(response).found
           THEN Finish("get_channel_info", Returned(try_lookup(response).channel))
           ELSE Finish("get_channel_info",
                    Raised(get_channel_info_except(
                        ChannelNotFound(channel_identifier), channel_identifier)))
    /\ UNCHANGED <<entry, argument, channel_identifier, calls, video_ids, channel_data, videos, histvars, clock, rng>>

----------------------------------------------------------------------------
(* get_channel_videos *)

ChannelIds == {<<"X">>, <<"Y">>}

max_results == 50

ChannelsListContentDetails(channel_id) ==
    [api |-> "channels.list", part |-> "contentDetails", id |-> channel_id]

PlaylistItemsList(playlist_id, limit) ==
    [api |-> "playlistItems.list", part |-> "snippet,contentDetails",
     playlistId |-> playlist_id, maxResults |-> limit]

VideosList(ids) ==
    [api |-> "videos.list", part |-> "snippet,statistics,contentDetails", id |-> ids]

UploadsX ==
    [id |-> <<"X">>,
     contentDetails |-> [relatedPlaylists |-> [likes |-> <<"L">>, uploads |-> <<"U">>]]]

\* a channel record that names no uploads playlist
UploadsMissing ==
    [id |-> <<"Y">>, contentDetails |-> [relatedPlaylists |-> [likes |-> <<"L">>]]]

UploadsRecords == {UploadsX, UploadsMissing}

UploadsResponses ==
    {Raises(e) : e \in TransportErrors}
        \cup {Body(NoItemsBody), Body(ItemsBody(<<>>))}
        \cup {Body(ItemsBody(<<r>>)) : r \in UploadsRecords}

VideoIds == {<<"p">>, <<"q">>}

PlaylistItem(video_id) ==
    [snippet |-> [title |-> "listed"], contentDetails |-> [videoId |-> video_id]]

\* a listed item that carries no video id
PlaylistItemNoVideoId ==
    [snippet |-> [title |-> "listed"], contentDetails |-> [note |-> "private"]]

PlaylistItems == {PlaylistItem(v) : v \in VideoIds} \cup {PlaylistItemNoVideoId}

PlaylistResponses ==
    {Raises(e) : e \in TransportErrors}
        \cup {Body(NoItemsBody)}
        \cup {Body(ItemsBody(items)) : items \in SeqsUpTo(PlaylistItems, MaxVideos)}

VideoP ==
    [id |-> <<"p">>,
     snippet |-> [title |-> "video p", description |-> "about p",
                  publishedAt |-> "2020-01-01T00:00:00Z", thumbnails |-> "thumbnails p"],
     statistics |-> [viewCount |-> <<"3", "0">>, likeCount |-> <<"4">>,
                     commentCount |-> <<"1">>],
     contentDetails |-> [duration |-> "PT1M"]]

\* hidden like count
VideoQ ==
    [id |-> <<"q">>,
     snippet |-> [title |-> "video q", description |-> "about q",
                  publishedAt |-> "2021-02-02T00:00:00Z", thumbnails |-> "thumbnails q"],
     statistics |-> [viewCount |-> <<"7">>, commentCount |-> <<"0">>],
     contentDetails |-> [duration |-> "PT2M"]]

VideoNoStatistics ==
    [id |-> <<"q">>,
     snippet |-> [title |-> "video q", description |-> "about q",
                  publishedAt |-> "2021-02-02T00:00:00Z", thumbnails |-> "thumbnails q"],
     contentDetails |-> [duration |-> "PT2M"]]

VideoRecords == {VideoP, VideoQ, VideoNoStatistics}

VideosListResponses ==
    {Raises(e) : e \in TransportErrors}
        \cup {Body(NoItemsBody)}
        \cup {Body(ItemsBody(items)) : items \in SeqsUpTo(VideoRecords, MaxVideos)}

\* only the first id is looked up
join_first_only(ids) == ids[1]

\* ','.join(ids)
RECURSIVE join(_)
join(ids) ==
    IF Len(ids) = 0 THEN <<>>
    ELSE IF Len(ids) = 1 THEN ids[1]
    ELSE ids[1] \o <<",">> \o join(Tail(ids))

VideoCountKeys == {"viewCount", "likeCount", "commentCount"}

\* whether _format_video_data(video_data) raises
format_video_data_raises(video_data) ==
    \/ ~({"id", "snippet", "statistics", "contentDetails"} \subseteq DOMAIN video_data)
    \/ ("snippet" \in DOMAIN video_data
            /\ ~(SnippetKeys \subseteq DOMAIN video_data.snippet))
    \/ ("contentDetails" \in DOMAIN video_data
            /\ "duration" \notin DOMAIN video_data.contentDetails)
    \/ ("statistics" \in DOMAIN video_data
            /\ \E key \in VideoCountKeys : CountRaises(video_data.statistics, key))

\* the exception _format_video_data(video_data) raises: the first failing
\* subscript in the order of the dict display
format_video_data_exc(video_data) ==
    IF "id" \notin DOMAIN video_data THEN KeyError("id")
    ELSE IF "snippet" \notin DOMAIN video_data THEN KeyError("snippet")
    ELSE IF "title" \notin DOMAIN video_data.snippet THEN KeyError("title")
    ELSE IF "description" \notin DOMAIN video_data.snippet THEN KeyError("description")
    ELSE IF "publishedAt" \notin DOMAIN video_data.snippet THEN KeyError("publishedAt")
    ELSE IF "thumbnails" \notin DOMAIN video_data.snippet THEN KeyError("thumbnails")
    ELSE IF "statistics" \notin DOMAIN video_data THEN KeyError("statistics")
    ELSE IF "contentDetails" \notin DOMAIN video_data THEN KeyError("contentDetails")
    ELSE IF "duration" \notin DOMAIN video_data.contentDetails THEN KeyError("duration")
    ELSE LET bad == IF CountRaises(video_data.statistics, "viewCount") THEN "viewCount"
                    ELSE IF CountRaises(video_data.statistics, "likeCount") THEN "likeCount"
                    ELSE "commentCount"
         IN  ValueError(Lit("invalid literal for int() with base 10: ")
                            \o Chars(video_data.statistics[bad]))

format_video_data(video_data) ==
    [id |-> video_data.id,
     title |-> video_data.snippet.title,
     description |-> video_data.snippet.description,
     published_at |-> video_data.snippet.publishedAt,
     thumbnails |-> video_data.snippet.thumbnails,
     statistics |-> video_data.statistics,
     duration |-> video_data.contentDetails.duration,
     view_count |-> Count(video_data.statistics, "viewCount"),
     like_count |-> Count(video_data.statistics, "likeCount"),
     comment_count |-> Count(video_data.statistics, "commentCount")]

Ok(value) == [raised |-> FALSE, value |-> value]

Fail(exc) == [raised |-> TRUE, exc |-> exc]

\* lines 121-126: the channel lookup's answer up to the uploads playlist id
uploads_playlist(response) ==
    IF response.raises THEN Fail(response.exc)
    ELSE IF "items" \notin DOMAIN response.body THEN Fail(KeyError("items"))
    ELSE IF response.body.items = <<>> THEN Fail(ValueError(Lit("Channel not found")))
    ELSE IF "contentDetails" \notin DOMAIN response.body.items[1]
    THEN Fail(KeyError("contentDetails"))
    ELSE IF "relatedPlaylists" \notin DOMAIN response.body.items[1].contentDetails
    THEN Fail(KeyError("relatedPlaylists"))
    ELSE IF "uploads" \notin DOMAIN response.body.items[1].contentDetails.relatedPlaylists
    THEN Fail(KeyError("uploads"))
    ELSE Ok(response.body.items[1].contentDetails.relatedPlaylists.uploads)

HasVideoId(item) ==
    "contentDetails" \in DOMAIN item /\ "videoId" \in DOMAIN item.contentDetails

\* lines 134-137: the listing's answer up to the list of video ids
collect_video_ids(response) ==
    IF response.raises THEN Fail(response.exc)
    ELSE IF "items" \notin DOMAIN response.body THEN Fail(KeyError("items"))
    ELSE IF \E k \in 1..Len(response.body.items) : ~HasVideoId(response.body.items[k])
    THEN LET k == CHOOSE k \in 1..Len(response.body.items) :
                      /\ ~HasVideoId(response.body.items[k])
                      /\ \A j \in 1..(k - 1) : HasVideoId(response.body.items[j])
         IN  IF "contentDetails" \notin DOMAIN response.body.items[k]
             THEN Fail(KeyError("contentDetails"))
             ELSE Fail(KeyError("videoId"))
    ELSE Ok([k \in 1..Len(response.body.items) |->
                response.body.items[k].contentDetails.videoId])

\* the early return left out
no_video_ids_unchecked(ids) == FALSE

\* line 139: `if not video_ids`
no_video_ids(ids) == ids = <<>>

\* lines 147-149: the details' answer up to the formatted list
format_videos(response) ==
    IF response.raises THEN Fail(response.exc)
    ELSE IF "items" \notin DOMAIN response.body THEN Fail(KeyError("items"))
    ELSE IF \E k \in 1..Len(response.body.items) :
                format_video_data_raises(response.body.items[k])
    THEN LET k == CHOOSE k \in 1..Len(response.body.items) :
                      /\ format_video_data_raises(response.body.items[k])
                      /\ \A j \in 1..(k - 1) :
                            ~format_video_data_raises(response.body.items[j])
         IN  Fail(format_video_data_exc(response.body.items[k]))
    ELSE Ok([k \in 1..Len(response.body.items) |->
                format_video_data(response.body.items[k])])

\* the handlers without the cause in the message
get_channel_videos_except_drops_cause(e) == ValueError(Lit("Error fetching videos"))

\* lines 151-154: both handlers build the same message
get_channel_videos_except(e) == ValueError(Lit("Error fetching videos: ") \o str(e))

\* lines 115-121: the channel request for the uploads playlist
enter_get_channel_videos(channel_id) ==
    /\ calls' = <<ChannelsListContentDetails(channel_id)>>
    /\ responses' = <<>>
    /\ video_ids' = <<>>
    /\ pc' = "uploads"

call_get_channel_videos ==
    /\ pc = "idle"
    /\ \E channel_id \in ChannelIds :
        /\ entry' = "get_channel_videos"
        /\ argument' = channel_id
        /\ enter_get_channel_videos(channel_id)
    /\ UNCHANGED <<result, outcome, channel_identifier, channel_data, videos, histvars, clock, rng>>

\* lines 121-134: the channel answer, then the listing request
get_channel_videos_uploads ==
    /\ pc = "uploads"
    /\ \E response \in UploadsResponses :
        /\ responses' = Append(responses, response)
        /\ IF uploads_playlist(response).raised
           THEN /\ Finish("get_channel_videos",
                        Raised(get_channel_videos_except(uploads_playlist(response).exc)))
                /\ UNCHANGED calls
           ELSE /\ calls' = Append(calls,
                        PlaylistItemsList(uploads_playlist(response).value, max_results))
                /\ pc' = "playlist"
                /\ UNCHANGED <<result, outcome>>
    /\ UNCHANGED <<entry, argument, channel_identifier, video_ids, channel_data, videos, histvars, clock, rng>>

\* lines 134-147: the listing's answer, then the one details request
get_channel_videos_playlist ==
    /\ pc = "playlist"
    /\ \E response \in PlaylistResponses :
        /\ responses' = Append(responses, response)
        /\ IF collect_video_ids(response).raised
           THEN /\ Finish("get_channel_videos",
                        Raised(get_channel_videos_except(collect_video_ids(response).exc)))
                /\ UNCHANGED <<calls, video_ids>>
           ELSE /\ video_ids' = collect_video_ids(response).value
                /\ IF no_video_ids(collect_video_ids(response).value)
                   THEN /\ Finish("get_channel_videos", Returned(<<>>))
                        /\ UNCHANGED calls
                   ELSE /\ calls' = Append(calls,
                                VideosList(join(collect_video_ids(response).value)))
                        /\ pc' = "details"
                        /\ UNCHANGED <<result, outcome>>
    /\ UNCHANGED <<entry, argument, channel_identifier, channel_data, videos, histvars, clock, rng>>

\* lines 147-154: the details' answer
get_channel_videos_details ==
    /\ pc = "details"
    /\ \E response \in VideosListResponses :
        /\ responses' = Append(responses, response)
        /\ IF format_videos(response).raised
           THEN Finish("get_channel_videos",
                    Raised(get_channel_videos_except(format_videos(response).exc)))
           ELSE Finish("get_channel_videos", Returned(format_videos(response).value))
    /\ UNCHANGED <<entry, argument, channel_identifier, calls, video_ids, channel_data, videos, histvars, clock, rng>>

----------------------------------------------------------------------------
(* IEEE-754 binary64 arithmetic on non-negative values, as Python's float  *)
(* does it: every operation is the exact result rounded to 53 significant  *)
(* bits, ties to even.  A natural number is the little-endian sequence of  *)
(* its base-2^15 limbs, without leading zero limbs; a float is             *)
(* [man |-> natural below 2^53 + 1, exp |-> e], standing for man * 2^e.    *)

Base == 2 ^ 15

Limb(a, k) == IF k <= Len(a) THEN a[k] ELSE 0

RECURSIVE BigNorm(_)
BigNorm(a) ==
    IF a = <<>> THEN <<>>
    ELSE IF a[Len(a)] = 0 THEN BigNorm(SubSeq(a, 1, Len(a) - 1))
    ELSE a

RECURSIVE BigFromInt(_)
BigFromInt(n) == IF n = 0 THEN <<>> ELSE <<n % Base>> \o BigFromInt(n \div Base)

RECURSIVE BigToInt(_)
BigToInt(a) == IF a = <<>> THEN 0 ELSE a[1] + Base * BigToInt(Tail(a))

RECURSIVE AddFrom(_, _, _, _)
AddFrom(a, b, k, carry) ==
    IF k > Len(a) /\ k > Len(b)
    THEN IF carry = 0 THEN <<>> ELSE <<carry>>
    ELSE <<(Limb(a, k) + Limb(b, k) + carry) % Base>>
            \o AddFrom(a, b, k + 1, (Limb(a, k) + Limb(b, k) + carry) \div Base)

BigAdd(a, b) == AddFrom(a, b, 1, 0)

RECURSIVE SubFrom(_, _, _, _)
SubFrom(a, b, k, borrow) ==
    IF k > Len(a) THEN <<>>
    ELSE IF a[k] - Limb(b, k) - borrow < 0
    THEN <<a[k] - Limb(b, k) - borrow + Base>> \o SubFrom(a, b, k + 1, 1)
    ELSE <<a[k] - Limb(b, k) - borrow>> \o SubFrom(a, b, k + 1, 0)

\* a - b, for a >= b
BigSub(a, b) == BigNorm(SubFrom(a, b, 1, 0))

RECURSIVE MulLimbFrom(_, _, _, _)
MulLimbFrom(a, d, k, carry) ==
    IF k > Len(a)
    THEN IF carry = 0 THEN <<>> ELSE <<carry>>
    ELSE <<(a[k] * d + carry) % Base>>
            \o MulLimbFrom(a, d, k + 1, (a[k] * d + carry) \div Base)

\* a * d, for a limb d
BigMulLimb(a, d) == BigNorm(MulLimbFrom(a, d, 1, 0))

RECURSIVE BigMul(_, _)
BigMul(a, b) ==
    IF a = <<>> \/ b = <<>> THEN <<>>
    ELSE BigNorm(BigAdd(BigMulLimb(a, b[1]), <<0>> \o BigMul(a, Tail(b))))

RECURSIVE BitLen(_)
BitLen(n) == IF n = 0 THEN 0 ELSE 1 + BitLen(n \div 2)

BigBitLen(a) == IF a = <<>> THEN 0 ELSE 15 * (Len(a) - 1) + BitLen(a[Len(a)])

\* a * 2^s
BigShl(a, s) ==
    IF a = <<>> THEN <<>>
    ELSE [k \in 1..(s \div 15) |-> 0] \o BigMulLimb(a, 2 ^ (s % 15))

\* a \div 2^s
BigShr(a, s) ==
    LET high == SubSeq(a, (s \div 15) + 1, Len(a))
        t == s % 15
    IN  BigNorm([k \in 1..Len(high) |->
                    (high[k] \div (2 ^ t)) + (Limb(high, k + 1) % (2 ^ t)) * (2 ^ (15 - t))])

\* bit k of a (bit 0 is the lowest)
BigBit(a, k) == (Limb(a, (k \div 15) + 1) \div (2 ^ (k % 15))) % 2

\* whether a bit of a below bit k is set
BigLowBits(a, k) ==
    \/ \E j \in 1..(k \div 15) : Limb(a, j) # 0
    \/ Limb(a, (k \div 15) + 1) % (2 ^ (k % 15)) # 0

Float(man, exp) == [man |-> man, exp |-> IF man = <<>> THEN 0 ELSE exp]

\* the natural p * 2^e rounded to 53 significant bits, ties to even
Round53(p, e) ==
    IF BigBitLen(p) <= 53 THEN Float(p, e)
    ELSE LET s == BigBitLen(p) - 53
             up == BigBit(p, s - 1) = 1 /\ (BigLowBits(p, s - 1) \/ BigBit(p, s) = 1)
         IN  Float(IF up THEN BigAdd(BigShr(p, s), <<1>>) ELSE BigShr(p, s), e + s)

FloatFromInt(n) == Float(BigFromInt(n), 0)

FloatMul(x, y) == Round53(BigMul(x.man, y.man), x.exp + y.exp)

MinExp(x, y) ==
    IF x.man = <<>> THEN y.exp
    ELSE IF y.man = <<>> THEN x.exp
    ELSE IF x.exp < y.exp THEN x.exp ELSE y.exp

\* the mantissa of x at the exponent e <= x.exp
Aligned(x, e) == IF x.man = <<>> THEN <<>> ELSE BigShl(x.man, x.exp - e)

FloatAdd(x, y) ==
    Round53(BigAdd(Aligned(x, MinExp(x, y)), Aligned(y, MinExp(x, y))), MinExp(x, y))

\* x - y, for x >= y
FloatSub(x, y) ==
    Round53(BigSub(Aligned(x, MinExp(x, y)), Aligned(y, MinExp(x, y))), MinExp(x, y))

\* int(x): truncation
FloatToInt(x) ==
    IF x.exp >= 0 THEN BigToInt(BigShl(x.man, x.exp))
    ELSE BigToInt(BigShr(x.man, 0 - x.exp))

RECURSIVE BigFromHex(_)
BigFromHex(digits) ==
    IF digits = <<>> THEN <<>>
    ELSE BigAdd(BigMulLimb(BigFromHex(SubSeq(digits, 1, Len(digits) - 1)), 16),
                BigFromInt(digits[Len(digits)]))

\* the literals 0.05, 0.4 and 0.8 share the mantissa 0x1999999999999a:
\* 0.05 = 0x1.999999999999ap-5, 0.4 = 0x1.999999999999ap-2,
\* 0.8 = 0x1.999999999999ap-1
Mantissa_1999999999999a ==
    BigFromHex(<<1, 9, 9, 9, 9, 9, 9, 9, 9, 9, 9, 9, 9, 10>>)

----------------------------------------------------------------------------
(* generate_historical_data *)

NoChannel == [id |-> <<>>]

\* the call starts in the last hour of day 0 and at most one midnight passes
\* while it runs: the hours datetime.now() can read
ClockHours == {23, 24}

HISTORICAL_MONTHS == 12

\* the floats of lines 211-212
Float_0_05 == Float(Mantissa_1999999999999a, 0 - 57)

Float_0_4 == Float(Mantissa_1999999999999a, 0 - 54)

Float_0_8 == Float(Mantissa_1999999999999a, 0 - 53)

\* random.random() returns a multiple of 2^-53 in [0.0, 1.0): the least one,
\* the middle one and the greatest one stand for them
RandomDraws ==
    <<Float(<<>>, 0),
      Float(<<1>>, 0 - 1),
      Float(BigSub(BigShl(<<1>>, 53), <<1>>), 0 - 53)>>

\* the generator's k-th draw is a function of its hidden state: a stream
\* walks the representative draws from a start, by a stride
Seeds == {[start |-> a, stride |-> b, position |-> 0] : a \in 0..2, b \in {0, 1}}

\* the k-th draw (k = 0, 1, ...) of a stream, as an index of RandomDraws
random(stream, k) == ((stream.start + stream.stride * k) % 3) + 1

\* a call of random.random() moves the generator on by one draw
advanced(stream) == [stream EXCEPT !.position = @ + 1]

\* a variation of 0.8 + random.random() * 0.8
random_variation_wide(draw) == FloatAdd(Float_0_8, FloatMul(draw, Float_0_8))

\* line 212: 0.8 + random.random() * 0.4
random_variation(draw) == FloatAdd(Float_0_8, FloatMul(draw, Float_0_4))

\* line 211: 1 - (i * 0.05)
growth_factor(months_back) ==
    FloatSub(FloatFromInt(1), FloatMul(FloatFromInt(months_back), Float_0_05))

\* lines 216, 221, 226: int(current * growth_factor * random_variation)
scaled(current, factor, variation) ==
    FloatToInt(FloatMul(FloatMul(FloatFromInt(current), factor), variation))

FormattedChannels ==
    {format_channel_data(r) : r \in {c \in ChannelRecords : ~format_channel_data_raises(c)}}

\* the current totals generate_historical_data is called with
Counts ==
    UNION {{c.subscriber_count, c.view_count, c.video_count} : c \in FormattedChannels}

\* scaled, for every total, month and draw of the model
ScaledTable ==
    [current \in Counts, months_back \in 1..HISTORICAL_MONTHS, d \in 1..Len(RandomDraws) |->
        scaled(current, growth_factor(months_back), random_variation(RandomDraws[d]))]

\* the proleptic Gregorian calendar of datetime: a date is <<year, month, day>>
is_leap(year) == year % 4 = 0 /\ (year % 100 # 0 \/ year % 400 = 0)

\* the number of days before January 1st of year
days_before_year(year) ==
    LET y == year - 1
    IN  y * 365 + (y \div 4) - (y \div 100) + (y \div 400)

days_in_month(year, month) ==
    IF month = 2 THEN (IF is_leap(year) THEN 29 ELSE 28)
    ELSE IF month \in {4, 6, 9, 11} THEN 30 ELSE 31

RECURSIVE days_before_month(_, _)
\* the number of days of year before the first day of month
days_before_month(year, month) ==
    IF month = 1 THEN 0
    ELSE days_before_month(year, month - 1) + days_in_month(year, month - 1)

\* date.toordinal(): 0001-01-01 is day 1
ymd2ord(date) == days_before_year(date[1]) + days_before_month(date[1], date[2]) + date[3]

\* date.fromordinal(n)
ord2ymd(n) ==
    LET year  == CHOOSE y \in (n \div 366)..((n \div 365) + 1) :
                     days_before_year(y) < n /\ n <= days_before_year(y + 1)
        rest  == n - days_before_year(year)
        month == CHOOSE m \in 1..12 :
                     /\ days_before_month(year, m) < rest
                     /\ rest <= days_before_month(year, m) + days_in_month(year, m)
    IN  <<year, month, rest - days_before_month(year, month)>>

DigitChar(d) ==
    CASE d = 0 -> "0" [] d = 1 -> "1" [] d = 2 -> "2" [] d = 3 -> "3" [] d = 4 -> "4"
      [] d = 5 -> "5" [] d = 6 -> "6" [] d = 7 -> "7" [] d = 8 -> "8" [] d = 9 -> "9"

RECURSIVE Decimal(_)
\* the decimal digits of n, as %Y renders a year (four digits from year 1000 on)
Decimal(n) ==
    IF n < 10 THEN <<DigitChar(n)>> ELSE Append(Decimal(n \div 10), DigitChar(n % 10))

RECURSIVE ZeroPadded(_, _)
\* the decimal digits of n, zero-padded to width characters, as %m and %d do
ZeroPadded(n, width) ==
    IF width = 0 THEN <<>>
    ELSE Append(ZeroPadded(n \div 10, width - 1), DigitChar(n % 10))

\* line 208: date.strftime('%Y-%m-%d'), the characters of the text
strftime(date) ==
    Decimal(date[1]) \o <<"-">> \o ZeroPadded(date[2], 2) \o <<"-">>
        \o ZeroPadded(date[3], 2)

\* the day the call starts on; the clock counts the hours since its midnight
Today == <<2024, 12, 31>>

\* line 207: the date of datetime.now() when the clock reads hours
now(hours) == ymd2ord(Today) + (hours \div 24)

\* lines 207-208: (datetime.now() - timedelta(days=30 * i)).strftime('%Y-%m-%d')
date_str(hours, months_back) == strftime(ord2ymd(now(hours) - 30 * months_back))

\* the loop entered one month short
enter_generate_historical_data_short ==
    /\ i' = HISTORICAL_MONTHS - 1
    /\ subscriber_history' = <<>>
    /\ view_history' = <<>>
    /\ video_history' = <<>>
    /\ calls' = <<>>
    /\ responses' = <<>>
    /\ pc' = "history"

\* date_str, for every reading of the clock and every month of the loop
DateTable ==
    [hours \in ClockHours, months_back \in 1..HISTORICAL_MONTHS |->
        date_str(hours, months_back)]

\* lines 197-203
enter_generate_historical_data ==
    /\ i' = HISTORICAL_MONTHS
    /\ subscriber_history' = <<>>
    /\ view_history' = <<>>
    /\ video_history' = <<>>
    /\ calls' = <<>>
    /\ responses' = <<>>
    /\ pc' = "history"

call_generate_historical_data ==
    /\ pc = "idle"
    /\ \E channel \in FormattedChannels :
        /\ entry' = "generate_historical_data"
        /\ argument' = channel
        /\ channel_data' = channel
    /\ enter_generate_historical_data
    /\ UNCHANGED <<result, outcome, channel_identifier, video_ids, videos, clock, rng>>

HistoricalData ==
    [subscriber_history |-> subscriber_history',
     view_history |-> view_history',
     video_history |-> video_history']

\* one iteration with the clock read again for the view and video points
generate_historical_data_step_date_per_metric ==
    /\ pc = "history"
    /\ i >= 1
    /\ \E hours \in {clock, clock + 1}, later \in {clock, clock + 1} :
        /\ hours \in ClockHours
        /\ later \in ClockHours
        /\ hours <= later
        /\ clock' = later
        /\ LET draw == random(rng, rng.position)
           IN  /\ subscriber_history' = Append(subscriber_history,
                      [date |-> DateTable[hours, i],
                       subscribers |-> ScaledTable[channel_data.subscriber_count, i, draw]])
               /\ view_history' = Append(view_history,
                      [date |-> DateTable[later, i],
                       views |-> ScaledTable[channel_data.view_count, i, draw]])
               /\ video_history' = Append(video_history,
                      [date |-> DateTable[later, i],
                       videos |-> ScaledTable[channel_data.video_count, i, draw]])
    /\ rng' = advanced(rng)
    /\ i' = i - 1
    /\ IF i = 1
       THEN Finish("generate_historical_data", Returned(HistoricalData))
       ELSE UNCHANGED <<pc, result, outcome>>
    /\ UNCHANGED <<entry, argument, channel_identifier, calls, responses, video_ids,
                   channel_data, videos>>

\* lines 206-233: one iteration of the loop; the last one returns
generate_historical_data_step ==
    /\ pc = "history"
    /\ i >= 1
    /\ \E hours \in {clock, clock + 1} :
        /\ hours \in ClockHours
        /\ clock' = hours
        /\ LET draw == random(rng, rng.position)
               date == DateTable[hours, i]
           IN  /\ subscriber_history' = Append(subscriber_history,
                      [date |-> date,
                       subscribers |-> ScaledTable[channel_data.subscriber_count, i, draw]])
               /\ view_history' = Append(view_history,
                      [date |-> date,
                       views |-> ScaledTable[channel_data.view_count, i, draw]])
               /\ video_history' = Append(video_history,
                      [date |-> date,
                       videos |-> ScaledTable[channel_data.video_count, i, draw]])
    /\ rng' = advanced(rng)
    /\ i' = i - 1
    /\ IF i = 1
       THEN Finish("generate_historical_data", Returned(HistoricalData))
       ELSE UNCHANGED <<pc, result, outcome>>
    /\ UNCHANGED <<entry, argument, channel_identifier, calls, responses, video_ids,
                   channel_data, videos>>

----------------------------------------------------------------------------
(* get_comprehensive_stats *)

\* the handler without the cause in the message
get_comprehensive_stats_except_drops_cause(e) ==
    ValueError(Lit("Error getting comprehensive stats"))

\* lines 261-262
get_comprehensive_stats_except(e) ==
    ValueError(Lit("Error getting comprehensive stats: ") \o str(e))

\* lines 255-259
Bundle(channel, video_list, historical_data) ==
    [channel |-> channel,
     videos |-> video_list,
     subscriber_history |-> historical_data.subscriber_history,
     view_history |-> historical_data.view_history,
     video_history |-> historical_data.video_history]

\* lines 245-247
call_get_comprehensive_stats ==
    /\ pc = "idle"
    /\ \E identifier \in Identifiers :
        /\ entry' = "get_comprehensive_stats"
        /\ argument' = identifier
        /\ enter_get_channel_info(identifier)
    /\ UNCHANGED <<result, outcome, video_ids, channel_data, videos, histvars, clock, rng>>

\* the videos fetched for the identifier the caller passed
get_comprehensive_stats_after_info_by_identifier ==
    /\ pc = "after_get_channel_info"
    /\ IF outcome.status = "raised"
       THEN /\ result' = Raised(get_comprehensive_stats_except(outcome.exc))
            /\ pc' = "done"
            /\ UNCHANGED <<channel_data, calls, responses, video_ids>>
       ELSE /\ channel_data' = outcome.value
            /\ enter_get_channel_videos(channel_identifier)
            /\ UNCHANGED result
    /\ UNCHANGED <<entry, argument, outcome, channel_identifier, videos, histvars,
                   clock, rng>>

\* lines 247-250 and 261-262: get_channel_info came back
get_comprehensive_stats_after_info ==
    /\ pc = "after_get_channel_info"
    /\ IF outcome.status = "raised"
       THEN /\ result' = Raised(get_comprehensive_stats_except(outcome.exc))
            /\ pc' = "done"
            /\ UNCHANGED <<channel_data, calls, responses, video_ids>>
       ELSE /\ channel_data' = outcome.value
            /\ enter_get_channel_videos(outcome.value.id)
            /\ UNCHANGED result
    /\ UNCHANGED <<entry, argument, outcome, channel_identifier, videos, histvars,
                   clock, rng>>

\* a failed video fetch answered with the channel alone
get_comprehensive_stats_after_videos_partial ==
    /\ pc = "after_get_channel_videos"
    /\ IF outcome.status = "raised"
       THEN /\ result' = Returned([channel |-> channel_data])
            /\ pc' = "done"
            /\ UNCHANGED <<videos, calls, responses, histvars>>
       ELSE /\ videos' = outcome.value
            /\ enter_generate_historical_data
            /\ UNCHANGED result
    /\ UNCHANGED <<entry, argument, outcome, channel_identifier, video_ids, channel_data,
                   clock, rng>>

\* lines 250-253 and 261-262: get_channel_videos came back
get_comprehensive_stats_after_videos ==
    /\ pc = "after_get_channel_videos"
    /\ IF outcome.status = "raised"
       THEN /\ result' = Raised(get_comprehensive_stats_except(outcome.exc))
            /\ pc' = "done"
            /\ UNCHANGED <<videos, calls, responses, histvars>>
       ELSE /\ videos' = outcome.value
            /\ enter_generate_historical_data
            /\ UNCHANGED result
    /\ UNCHANGED <<entry, argument, outcome, channel_identifier, video_ids, channel_data,
                   clock, rng>>

\* lines 253-259: generate_historical_data came back
get_comprehensive_stats_after_history ==
    /\ pc = "after_generate_historical_data"
    /\ result' = Returned(Bundle(channel_data, videos, outcome.value))
    /\ pc' = "done"
    /\ UNCHANGED <<entry, argument, outcome, channel_identifier, calls, responses,
                   video_ids, channel_data, videos, histvars, clock, rng>>

-----------------------------------------------------------------------------
(* The dashboard's historical export, src/streamlit_app.py main            *)

\* lines 398-403: the four columns built from the three stored histories
historical_data(stats) ==
    [Datum |-> [k \in 1..Len(stats.subscriber_history) |-> stats.subscriber_history[k].date],
     Abonnenten |-> [k \in 1..Len(stats.subscriber_history)
                        |-> stats.subscriber_history[k].subscribers],
     Aufrufe |-> [k \in 1..Len(stats.view_history) |-> stats.view_history[k].views],
     Videos |-> [k \in 1..Len(stats.video_history) |-> stats.video_history[k].videos]]

\* line 404: pd.DataFrame of a dict of lists raises unless the lists have
\* one length
DataFrame_raises(columns) ==
    \E a \in DOMAIN columns, b \in DOMAIN columns : Len(columns[a]) # Len(columns[b])

-----------------------------------------------------------------------------

\* the locals of a caller that has not called yet
NotCalled ==
    [pc |-> "idle", entry |-> "none", argument |-> <<>>, result |-> NoOutcome,
     outcome |-> NoOutcome, channel_identifier |-> <<>>, calls |-> <<>>,
     responses |-> <<>>, video_ids |-> <<>>, channel_data |-> NoChannel,
     videos |-> <<>>, i |-> 0, subscriber_history |-> <<>>, view_history |-> <<>>,
     video_history |-> <<>>, log |-> <<>>]

Init ==
    /\ pc = "idle"
    /\ entry = "none"
    /\ argument = <<>>
    /\ result = NoOutcome
    /\ outcome = NoOutcome
    /\ channel_identifier = <<>>
    /\ calls = <<>>
    /\ responses = <<>>
    /\ video_ids = <<>>
    /\ channel_data = NoChannel
    /\ videos = <<>>
    /\ i = 0
    /\ subscriber_history = <<>>
    /\ view_history = <<>>
    /\ video_history = <<>>
    /\ clock = 23
    /\ rng \in Seeds
    /\ running = 1
    /\ suspended = NotCalled
    /\ log = <<>>
    /\ switches = 0
    /\ session_state = EmptyDict
    /\ shown = "nothing"
    /\ searches = 0

\* one caller: no thread switch, no dashboard
Next ==
    \/ call_get_channel_info /\ UNCHANGED <<callers, dashboard>>
    \/ get_channel_info_tier1 /\ UNCHANGED <<callers, dashboard>>
    \/ get_channel_info_tier2 /\ UNCHANGED <<callers, dashboard>>
    \/ get_channel_info_tier3 /\ UNCHANGED <<callers, dashboard>>
    \/ get_channel_info_tier3_detail /\ UNCHANGED <<callers, dashboard>>
    \/ call_get_channel_videos /\ UNCHANGED <<callers, dashboard>>
    \/ get_channel_videos_uploads /\ UNCHANGED <<callers, dashboard>>
    \/ get_channel_videos_playlist /\ UNCHANGED <<callers, dashboard>>
    \/ get_channel_videos_details /\ UNCHANGED <<callers, dashboard>>
    \/ call_generate_historical_data /\ UNCHANGED <<callers, dashboard>>
    \/ generate_historical_data_step /\ UNCHANGED <<callers, dashboard>>
    \/ call_get_comprehensive_stats /\ UNCHANGED <<callers, dashboard>>
    \/ get_comprehensive_stats_after_info /\ UNCHANGED <<callers, dashboard>>
    \/ get_comprehensive_stats_after_videos /\ UNCHANGED <<callers, dashboard>>
    \/ get_comprehensive_stats_after_history /\ UNCHANGED <<callers, dashboard>>

Spec == Init /\ [][Next]_vars

\* generate_historical_data alone, called with each channel of the model
NextHistory ==
    \/ call_generate_historical_data /\ UNCHANGED <<callers, dashboard>>
    \/ generate_historical_data_step /\ UNCHANGED <<callers, dashboard>>

SpecHistory == Init /\ [][NextHistory]_vars

----------------------------------------------------------------------------
(* Two callers of the global instance youtube_api.  The variables of a     *)
(* call hold the locals of the call that is running; the locals of the     *)
(* other caller's call wait in `suspended`, and a thread switch exchanges  *)
(* the two.  The clock and the random generator belong to the process.     *)

MaxSwitches == 2

\* the locals of the running call
Locals ==
    [pc |-> pc, entry |-> entry, argument |-> argument, result |-> result,
     outcome |-> outcome, channel_identifier |-> channel_identifier, calls |-> calls,
     responses |-> responses, video_ids |-> video_ids, channel_data |-> channel_data,
     videos |-> videos, i |-> i, subscriber_history |-> subscriber_history,
     view_history |-> view_history, video_history |-> video_history, log |-> log]

\* the resolved channel kept in one place for both callers
restore_shared_channel(frame) == [frame EXCEPT !.channel_data = channel_data]

\* what a resumed call finds in its locals: every method keeps its data in
\* local variables, none in an attribute of the instance
restore(frame) == frame

\* the interpreter hands the processor to the other caller
switch ==
    /\ switches < MaxSwitches
    /\ suspended' = Locals
    /\ pc' = restore(suspended).pc
    /\ entry' = restore(suspended).entry
    /\ argument' = restore(suspended).argument
    /\ result' = restore(suspended).result
    /\ outcome' = restore(suspended).outcome
    /\ channel_identifier' = restore(suspended).channel_identifier
    /\ calls' = restore(suspended).calls
    /\ responses' = restore(suspended).responses
    /\ video_ids' = restore(suspended).video_ids
    /\ channel_data' = restore(suspended).channel_data
    /\ videos' = restore(suspended).videos
    /\ i' = restore(suspended).i
    /\ subscriber_history' = restore(suspended).subscriber_history
    /\ view_history' = restore(suspended).view_history
    /\ video_history' = restore(suspended).video_history
    /\ log' = restore(suspended).log
    /\ running' = 3 - running
    /\ switches' = switches + 1
    /\ UNCHANGED <<clock, rng, dashboard>>

\* the identifiers the two callers ask for
TwoCallerIdentifiers == {<<"a">>, <<"@">>}

\* the answers of the transport to a request while two callers run
TwoCallerAnswers(request) ==
    CASE request.api = "search.list" ->
            {Body(NoItemsBody), Body(ItemsBody(<<StubX>>))}
      [] request.api = "playlistItems.list" ->
            {Body(NoItemsBody), Body(ItemsBody(<<PlaylistItem(<<"p">>)>>))}
      [] request.api = "videos.list" ->
            {Body(NoItemsBody), Body(ItemsBody(<<VideoP>>))}
      [] request.api = "channels.list" /\ request.part = "contentDetails" ->
            {Body(NoItemsBody), Body(ItemsBody(<<UploadsX>>))}
      [] request.api = "channels.list" /\ request.part = ChannelParts ->
            {Body(NoItemsBody), Body(ItemsBody(<<ChannelX>>)),
             Body(ItemsBody(<<ChannelY>>))}

\* whether the step received an answer of the transport
Answered == responses' # responses /\ responses' # <<>>

\* the step's input joins the log of the running call: an answer of the
\* transport, or a reading of the clock with a draw of the generator
Received ==
    log' = IF Answered THEN Append(log, responses'[Len(responses')])
           ELSE IF rng' # rng
           THEN Append(log, [hours |-> clock', draw |-> random(rng, rng.position),
                             nth |-> rng.position])
           ELSE log

\* a step of the running call while two callers use the instance
TwoCallers(step) ==
    /\ step
    /\ argument' \in TwoCallerIdentifiers
    /\ Answered => responses'[Len(responses')]
                        \in TwoCallerAnswers(calls[Len(responses')])
    /\ clock' = clock
    /\ Received
    /\ UNCHANGED <<running, suspended, switches, dashboard>>

InitTwo == Init /\ rng = [start |-> 0, stride |-> 1, position |-> 0]

NextTwo ==
    \/ TwoCallers(call_get_comprehensive_stats)
    \/ TwoCallers(get_channel_info_tier1)
    \/ TwoCallers(get_channel_info_tier2)
    \/ TwoCallers(get_channel_info_tier3)
    \/ TwoCallers(get_channel_info_tier3_detail)
    \/ TwoCallers(get_comprehensive_stats_after_info)
    \/ TwoCallers(get_channel_videos_uploads)
    \/ TwoCallers(get_channel_videos_playlist)
    \/ TwoCallers(get_channel_videos_details)
    \/ TwoCallers(get_comprehensive_stats_after_videos)
    \/ TwoCallers(generate_historical_data_step)
    \/ TwoCallers(get_comprehensive_stats_after_history)
    \/ switch

SpecTwo == InitTwo /\ [][NextTwo]_vars

----------------------------------------------------------------------------
(* The dashboard's search, src/streamlit_app.py main.  A run of the script *)
(* with the search button pressed and an input given calls                 *)
(* get_comprehensive_stats once and then either stores the bundle in       *)
(* st.session_state or reports the error and stops; st.session_state       *)
(* outlives the run, the script's locals do not.                           *)

MaxSearches == 2

\* lines 189-193: the five fields of st.session_state, from stats
stored(stats) ==
    [channel_data |-> stats.channel,
     videos |-> stats.videos,
     subscriber_history |-> stats.subscriber_history,
     view_history |-> stats.view_history,
     video_history |-> stats.video_history]

\* the five fields with the histories of an earlier load kept
stored_over(stats) ==
    IF session_state = EmptyDict THEN stored(stats)
    ELSE [session_state EXCEPT !.channel_data = stats.channel, !.videos = stats.videos]

\* the answers of the transport to a request of the dashboard's load
SearchAnswers(request) == TwoCallerAnswers(request) \cup {Raises(HttpError(403))}

\* a step of the load the dashboard is waiting for
Searching(step) ==
    /\ step
    /\ argument' \in TwoCallerIdentifiers
    /\ Answered => responses'[Len(responses')] \in SearchAnswers(calls[Len(responses')])
    /\ UNCHANGED <<callers, dashboard>>

\* lines 180-184: the button pressed with an input given
main_search ==
    /\ searches < MaxSearches
    /\ Searching(call_get_comprehensive_stats)

\* the run of the script is over: its locals are gone
script_ends ==
    /\ pc' = NotCalled.pc
    /\ entry' = NotCalled.entry
    /\ argument' = NotCalled.argument
    /\ result' = NotCalled.result
    /\ outcome' = NotCalled.outcome
    /\ channel_identifier' = NotCalled.channel_identifier
    /\ calls' = NotCalled.calls
    /\ responses' = NotCalled.responses
    /\ video_ids' = NotCalled.video_ids
    /\ channel_data' = NotCalled.channel_data
    /\ videos' = NotCalled.videos
    /\ i' = NotCalled.i
    /\ subscriber_history' = NotCalled.subscriber_history
    /\ view_history' = NotCalled.view_history
    /\ video_history' = NotCalled.video_history

\* the bundle stored with the histories of an earlier load kept
main_search_store_keeps_histories ==
    /\ pc = "done"
    /\ entry = "get_comprehensive_stats"
    /\ result.status = "returned"
    /\ session_state' = stored_over(result.value)
    /\ shown' = "data"
    /\ searches' = searches + 1
    /\ script_ends
    /\ UNCHANGED <<clock, rng, callers>>

\* lines 184-193, then the display from line 215 on: the call returned
main_search_store ==
    /\ pc = "done"
    /\ entry = "get_comprehensive_stats"
    /\ result.status = "returned"
    /\ session_state' = stored(result.value)
    /\ shown' = "data"
    /\ searches' = searches + 1
    /\ script_ends
    /\ UNCHANGED <<clock, rng, callers>>

\* lines 195-212: the call raised; the error and its hint, then st.stop()
main_search_except ==
    /\ pc = "done"
    /\ entry = "get_comprehensive_stats"
    /\ result.status = "raised"
    /\ shown' = ErrorKind(str(result.exc))
    /\ searches' = searches + 1
    /\ script_ends
    /\ UNCHANGED <<session_state, clock, rng, callers>>

NextSearch ==
    \/ main_search
    \/ Searching(get_channel_info_tier1)
    \/ Searching(get_channel_info_tier2)
    \/ Searching(get_channel_info_tier3)
    \/ Searching(get_channel_info_tier3_detail)
    \/ Searching(get_comprehensive_stats_after_info)
    \/ Searching(get_channel_videos_uploads)
    \/ Searching(get_channel_videos_playlist)
    \/ Searching(get_channel_videos_details)
    \/ Searching(get_comprehensive_stats_after_videos)
    \/ Searching(generate_historical_data_step)
    \/ Searching(get_comprehensive_stats_after_history)
    \/ main_search_store
    \/ main_search_except

SpecSearch == Init /\ [][NextSearch]_vars

-----------------------------------------------------------------------------
(* Properties *)

\* the states in which calls and responses are get_channel_info's
InfoLog ==
    \/ pc \in {"tier1", "tier2", "tier3", "tier3_detail", "after_get_channel_info"}
    \/ (entry = "get_channel_info" /\ pc = "done")

InfoFinished ==
    \/ pc = "after_get_channel_info"
    \/ (entry = "get_channel_info" /\ pc = "done")

\* the states in which calls and responses are get_channel_videos'
VideosLog ==
    \/ pc \in {"uploads", "playlist", "details", "after_get_channel_videos"}
    \/ (entry = "get_channel_videos" /\ pc = "done")

VideosFinished ==
    \/ pc = "after_get_channel_videos"
    \/ (entry = "get_channel_videos" /\ pc = "done")

HasItems(response) ==
    /\ ~response.raises
    /\ "items" \in DOMAIN response.body
    /\ response.body.items # <<>>

\* an answer that reports absence: no exception, and no item
Absent(response) ==
    /\ ~response.raises
    /\ ("items" \notin DOMAIN response.body \/ response.body.items = <<>>)

Formattable(response) ==
    HasItems(response) /\ ~format_channel_data_raises(response.body.items[1])

\* the kind the caller sees for a transport failure of each status
KindOfFailure(e) ==
    IF e.status = 403 THEN "quota" ELSE IF e.status = 404 THEN "not found" ELSE "other"

\* C1: if the by-ID lookup fails with HTTP status 403, get_channel_info
\* raises the quota/auth error and issues neither the by-username lookup nor
\* the search.
C1_AuthErrorPropagates ==
    (InfoFinished /\ responses[1] = Raises(HttpError(403)))
        => /\ Len(calls) = 1
           /\ outcome.status = "raised"
           /\ ErrorKind(outcome.exc.msg) = "quota"

\* C2 as stated: whenever the by-ID lookup answers with a non-empty item
\* list, get_channel_info returns the channel built from the first item and
\* issues no further request.
C2_Tier1NonEmptyReturns ==
    (InfoLog /\ Len(responses) >= 1 /\ HasItems(responses[1]))
        => /\ Len(calls) = 1
           /\ InfoFinished
           /\ outcome.status = "returned"
           /\ ~format_channel_data_raises(responses[1].body.items[1])
           /\ outcome.value = format_channel_data(responses[1].body.items[1])

\* C2 amended: whenever the by-ID lookup answers with a non-empty item list
\* whose first item _format_channel_data accepts, get_channel_info returns
\* the channel built from that item and issues no further request.
C2_Tier1FormattableReturns ==
    (InfoLog /\ Len(responses) >= 1 /\ Formattable(responses[1]))
        => /\ calls = <<ChannelsListById(strip_at(argument))>>
           /\ InfoFinished
           /\ outcome = Returned(format_channel_data(responses[1].body.items[1]))

C2_Witness ==
    /\ InfoFinished
    /\ Formattable(responses[1])
    /\ outcome = Returned(format_channel_data(ChannelY))

\* the search answered with a top item that names a channel id
SearchHit ==
    /\ Len(responses) >= 3
    /\ HasItems(responses[3])
    /\ "id" \in DOMAIN responses[3].body.items[1]
    /\ "channelId" \in DOMAIN responses[3].body.items[1].id

\* C3 as stated: when tiers 1 and 2 report absence and the search's top hit
\* names channel id X, get_channel_info issues a by-ID detail lookup for X and
\* returns the channel formatted from the detail response.
C3_SearchHitReturnsDetail ==
    (InfoFinished /\ Len(responses) >= 3 /\ Absent(responses[1]) /\ Absent(responses[2])
        /\ SearchHit)
        => /\ Len(calls) = 4
           /\ calls[4] = ChannelsListById(responses[3].body.items[1].id.channelId)
           /\ outcome.status = "returned"
           /\ Formattable(responses[4])
           /\ outcome.value = format_channel_data(responses[4].body.items[1])

\* C3 amended: when tiers 1 and 2 report absence and the search's top hit
\* names channel id X, get_channel_info issues a by-ID detail lookup for X;
\* it returns the channel formatted from the detail response when that response
\* holds a record _format_channel_data accepts, and raises the not-found
\* error otherwise: what it returns is never built from the search item.
C3_SearchHitLooksUpDetail ==
    (InfoLog /\ Len(responses) >= 3 /\ Absent(responses[1]) /\ Absent(responses[2])
        /\ SearchHit)
        => /\ Len(calls) = 4
           /\ calls[4] = ChannelsListById(responses[3].body.items[1].id.channelId)
           /\ InfoFinished =>
                IF Formattable(responses[4])
                THEN outcome = Returned(format_channel_data(responses[4].body.items[1]))
                ELSE /\ outcome.status = "raised"
                     /\ ErrorKind(outcome.exc.msg) = "not found"

C3_Witness ==
    /\ InfoFinished
    /\ Len(responses) = 4
    /\ Absent(responses[1])
    /\ Absent(responses[2])
    /\ responses[3] = Body(ItemsBody(<<StubX>>))
    /\ outcome = Returned(format_channel_data(ChannelX))

\* the message interpolates exactly the string s
Carries(msg, s) == \E k \in 1..Len(msg) : msg[k] = [chars |-> s]

\* C4: when no tier finds the channel, get_channel_info raises a not-found
\* error whose message carries the identifier exactly as the caller passed it.
C4_NotFoundCarriesOriginal ==
    (InfoFinished /\ outcome.status = "raised")
        => /\ ErrorKind(outcome.exc.msg) = "not found"
           /\ Carries(outcome.exc.msg, argument)

\* C5: a transport call that fails with an HTTP status makes the enclosing
\* get_channel_info or get_channel_videos raise the error kind of that status:
\* quota/auth for 403, not found for 404, the transient kind for any other.
C5_StatusDecidesKind ==
    (InfoFinished \/ VideosFinished)
        => \A k \in 1..Len(responses) :
              (responses[k].raises /\ responses[k].exc.type = "HttpError")
                  => /\ outcome.status = "raised"
                     /\ ErrorKind(outcome.exc.msg) = KindOfFailure(responses[k].exc)

BundleKeys == {"channel", "videos", "subscriber_history", "view_history", "video_history"}

\* C6: get_comprehensive_stats returns no partial bundle: whatever it returns
\* holds the resolved channel, the fetched video list and the three complete
\* history sequences, and when get_channel_info or get_channel_videos raised
\* it returns nothing and raises.
C6_AllOrNothing ==
    entry = "get_comprehensive_stats"
        => /\ result.status = "returned"
                => /\ DOMAIN result.value = BundleKeys
                   /\ channel_data # NoChannel
                   /\ result.value.channel = channel_data
                   /\ result.value.videos = videos
                   /\ Len(result.value.subscriber_history) = HISTORICAL_MONTHS
                   /\ Len(result.value.view_history) = HISTORICAL_MONTHS
                   /\ Len(result.value.video_history) = HISTORICAL_MONTHS
           /\ outcome.status = "raised" => result.status # "returned"
           /\ (outcome.status = "raised" /\ pc = "done") => result.status = "raised"

C6_Witness ==
    /\ entry = "get_comprehensive_stats"
    /\ result.status = "returned"
    /\ Len(result.value.videos) = 2
    /\ Len(result.value.subscriber_history) = HISTORICAL_MONTHS

C8_NoUploadsReturnsEmpty ==
    (VideosLog /\ Len(responses) >= 2 /\ responses[2] = Body(ItemsBody(<<>>)))
        => /\ VideosFinished
           /\ outcome = Returned(<<>>)
           /\ Len(calls) = 2
           /\ \A k \in 1..Len(calls) : calls[k].api # "videos.list"

C8_Witness ==
    /\ VideosFinished
    /\ Len(responses) = 2
    /\ responses[2] = Body(ItemsBody(<<>>))
    /\ outcome = Returned(<<>>)

\* the channel lookup answered with an empty item list
NoItem(response) ==
    /\ ~response.raises
    /\ "items" \in DOMAIN response.body
    /\ response.body.items = <<>>

RECURSIVE split(_)
split(s) ==
    IF \E k \in 1..Len(s) : s[k] = ","
    THEN LET k == CHOOSE k \in 1..Len(s) :
                      s[k] = "," /\ \A j \in 1..(k - 1) : s[j] # ","
         IN  <<SubSeq(s, 1, k - 1)>> \o split(SubSeq(s, k + 1, Len(s)))
    ELSE <<s>>

\* the listing answered with at least one item, each naming a video id
ListedSome ==
    /\ Len(responses) >= 2
    /\ HasItems(responses[2])
    /\ \A k \in 1..Len(responses[2].body.items) : HasVideoId(responses[2].body.items[k])

ListedIds ==
    [k \in 1..Len(responses[2].body.items) |->
        responses[2].body.items[k].contentDetails.videoId]

\* C10: for a non-empty listing get_channel_videos issues exactly one
\* video-details lookup, whose id argument names every listed video id, in
\* listing order.
C10_OneBatchedLookup ==
    (VideosLog /\ ListedSome)
        => /\ Cardinality({k \in 1..Len(calls) : calls[k].api = "videos.list"}) = 1
           /\ calls[3].api = "videos.list"
           /\ split(calls[3].id) = ListedIds

C10_Witness ==
    /\ VideosFinished
    /\ ListedSome
    /\ Len(ListedIds) >= 2
    /\ ListedIds[1] # ListedIds[2]
    /\ outcome.status = "returned"

\* the states in which generate_historical_data has returned
HistoryFinished ==
    \/ pc = "after_generate_historical_data"
    \/ (entry = "generate_historical_data" /\ pc = "done")

\* C11: whatever the current totals, generate_historical_data returns exactly
\* HISTORICAL_MONTHS points in each of the subscriber, view and video
\* sequences; while the loop runs each sequence holds one point per month done.
C11_ExactlyMPoints ==
    /\ pc = "history"
            => /\ i \in 1..HISTORICAL_MONTHS
               /\ Len(subscriber_history) = HISTORICAL_MONTHS - i
               /\ Len(view_history) = HISTORICAL_MONTHS - i
               /\ Len(video_history) = HISTORICAL_MONTHS - i
    /\ HistoryFinished
            => /\ outcome.status = "returned"
               /\ DOMAIN outcome.value = {"subscriber_history", "view_history", "video_history"}
               /\ Len(outcome.value.subscriber_history) = HISTORICAL_MONTHS
               /\ Len(outcome.value.view_history) = HISTORICAL_MONTHS
               /\ Len(outcome.value.video_history) = HISTORICAL_MONTHS

C11_Witness ==
    /\ entry = "generate_historical_data"
    /\ pc = "done"
    /\ argument.subscriber_count = 0
    /\ argument.view_count > 0
    /\ Len(result.value.subscriber_history) = HISTORICAL_MONTHS
    /\ Len(result.value.view_history) = HISTORICAL_MONTHS
    /\ Len(result.value.video_history) = HISTORICAL_MONTHS

\* the date a '%Y-%m-%d' text names
strptime(text) ==
    <<ParseInt(SubSeq(text, 1, Len(text) - 6)),
      ParseInt(SubSeq(text, Len(text) - 4, Len(text) - 3)),
      ParseInt(SubSeq(text, Len(text) - 1, Len(text)))>>

\* the day number of a point's date
DayOf(point) == ymd2ord(strptime(point.date))

ThirtyApart(history) ==
    \A k \in 1..(Len(history) - 1) : DayOf(history[k + 1]) - DayOf(history[k]) = 30

BeforeSynthesis(history) ==
    Len(history) > 0 => DayOf(history[Len(history)]) < ymd2ord(Today)

\* C12: in each sequence of generate_historical_data consecutive dates are
\* exactly 30 days apart, oldest first, and the last date is before the day of
\* the call, however the wall clock moves while the loop runs.
C12_DatesThirtyApart ==
    /\ ThirtyApart(subscriber_history) /\ BeforeSynthesis(subscriber_history)
    /\ ThirtyApart(view_history) /\ BeforeSynthesis(view_history)
    /\ ThirtyApart(video_history) /\ BeforeSynthesis(video_history)

\* C13: at each generated point the subscriber value, the view value and the
\* video value each get a variation factor of their own, an independent draw
\* of the generator: three draws are taken per point.
C13_DrawPerMetric ==
    (pc = "history" \/ HistoryFinished)
        => rng.position = 3 * Len(subscriber_history)

\* whether two floats are the same number
SameValue(x, y) == Aligned(x, MinExp(x, y)) = Aligned(y, MinExp(x, y))

\* the variation factor of the k-th point of the call
VariationAt(k) == random_variation(RandomDraws[random(rng, k - 1)])

\* floor(c * (1 - 0.05 * i)), which is floor(c * (20 - i) / 20)
FloorOfGrowth(c, months_back) == (c * (20 - months_back)) \div 20

\* C14: wherever the variation factor is 1.0, the value generated for month
\* offset i of a metric with current total c is floor(c * (1 - 0.05 * i)).
C14_PinnedValueIsFloor ==
    (pc = "history" \/ HistoryFinished)
        => \A k \in 1..Len(subscriber_history) :
              SameValue(VariationAt(k), FloatFromInt(1))
                  => /\ subscriber_history[k].subscribers
                            = FloorOfGrowth(channel_data.subscriber_count,
                                            HISTORICAL_MONTHS - k + 1)
                     /\ view_history[k].views
                            = FloorOfGrowth(channel_data.view_count,
                                            HISTORICAL_MONTHS - k + 1)
                     /\ video_history[k].videos
                            = FloorOfGrowth(channel_data.video_count,
                                            HISTORICAL_MONTHS - k + 1)

\* floor(n * x) for a natural n and a float x, without rounding
ExactFloor(n, x) ==
    IF x.exp >= 0 THEN BigToInt(BigShl(BigMul(BigFromInt(n), x.man), x.exp))
    ELSE BigToInt(BigShr(BigMul(BigFromInt(n), x.man), 0 - x.exp))

\* C15: for a channel of 1000 subscribers the oldest point of the subscriber
\* history (12 months back) is floor(400 * variation), a value of [320, 480).
C15_FirstPointOfThousand ==
    /\ (pc = "history" \/ HistoryFinished)
    /\ channel_data.subscriber_count = 1000
    /\ Len(subscriber_history) >= 1
    => /\ subscriber_history[1].subscribers = ExactFloor(400, VariationAt(1))
       /\ subscriber_history[1].subscribers \in 320..479

\* the formatted field of each count of the statistics
CountField(key) ==
    CASE key = "subscriberCount" -> "subscriber_count"
      [] key = "viewCount" -> "view_count"
      [] key = "videoCount" -> "video_count"

\* an answer whose first item _format_channel_data accepts although its
\* statistics lack a count
LacksCount(response) ==
    /\ Formattable(response)
    /\ \E key \in CountKeys : key \notin DOMAIN response.body.items[1].statistics

\* C16: a channel record whose statistics lack subscriberCount, viewCount or
\* videoCount is formatted with that count 0, and get_channel_info returns
\* that channel from the lookup that answered with it.
C16_AbsentCountIsZero ==
    InfoLog
        => \A k \in 1..Len(responses) :
              LacksCount(responses[k])
                  => /\ k = Len(responses)
                     /\ InfoFinished
                     /\ outcome.status = "returned"
                     /\ outcome.value.id = responses[k].body.items[1].id
                     /\ outcome.value.title = responses[k].body.items[1].snippet.title
                     /\ \A key \in CountKeys :
                           IF key \in DOMAIN responses[k].body.items[1].statistics
                           THEN outcome.value[CountField(key)]
                                    = ParseInt(responses[k].body.items[1].statistics[key])
                           ELSE outcome.value[CountField(key)] = 0

C16_Witness ==
    /\ InfoFinished
    /\ outcome.status = "returned"
    /\ Len(responses) = 2
    /\ DOMAIN outcome.value.statistics = {"subscriberCount"}
    /\ outcome.value.subscriber_count = 10
    /\ outcome.value.view_count = 0
    /\ outcome.value.video_count = 0

\* the identifier without its first character when that is an '@'
WithoutOneAt(s) == IF s # <<>> /\ Head(s) = "@" THEN Tail(s) ELSE s

\* C17: get_channel_info removes one leading '@' and no more, and the by-ID
\* lookup, the by-username lookup and the search all carry that stripped
\* string; what the call returns or raises is fixed by the stripped string
\* and the answers, so '@' + s resolves as s does.
C17_OneStrippedIdentifier ==
    InfoLog
        => /\ channel_identifier = WithoutOneAt(argument)
           /\ Len(calls) >= 1 => calls[1] = ChannelsListById(WithoutOneAt(argument))
           /\ Len(calls) >= 2 => calls[2] = ChannelsListForUsername(WithoutOneAt(argument))
           /\ Len(calls) >= 3 => calls[3] = SearchList(WithoutOneAt(argument))
           /\ Len(calls) >= 4
                => calls[4] = ChannelsListById(responses[3].body.items[1].id.channelId)
           /\ (InfoFinished /\ outcome.status = "returned")
                => outcome.value
                       = format_channel_data(responses[Len(responses)].body.items[1])
           /\ (InfoFinished /\ outcome.status = "raised")
                => outcome.exc = get_channel_info_except(
                                     ChannelNotFound(WithoutOneAt(argument)),
                                     WithoutOneAt(argument))

C17_Witness ==
    /\ InfoFinished
    /\ argument = <<"@", "a">>
    /\ Len(calls) = 4
    /\ calls[1].id = <<"a">>
    /\ calls[2].forUsername = <<"a">>
    /\ calls[3].q = <<"a">>
    /\ outcome.status = "returned"

\* what get_channel_info gives for the stripped identifier t and the answers
\* it receives, and how many of them it uses
InfoOf(t, inputs) ==
    IF try_lookup(inputs[1]).found
    THEN [used |-> 1, outcome |-> Returned(try_lookup(inputs[1]).channel)]
    ELSE IF try_lookup(inputs[2]).found
    THEN [used |-> 2, outcome |-> Returned(try_lookup(inputs[2]).channel)]
    ELSE IF ~try_search(inputs[3]).hit
    THEN [used |-> 3,
          outcome |-> Raised(get_channel_info_except(ChannelNotFound(t), t))]
    ELSE IF try_lookup(inputs[4]).found
    THEN [used |-> 4, outcome |-> Returned(try_lookup(inputs[4]).channel)]
    ELSE [used |-> 4,
          outcome |-> Raised(get_channel_info_except(ChannelNotFound(t), t))]

\* what get_channel_videos gives for the answers it receives
VideosOf(inputs) ==
    IF uploads_playlist(inputs[1]).raised
    THEN Raised(get_channel_videos_except(uploads_playlist(inputs[1]).exc))
    ELSE IF collect_video_ids(inputs[2]).raised
    THEN Raised(get_channel_videos_except(collect_video_ids(inputs[2]).exc))
    ELSE IF no_video_ids(collect_video_ids(inputs[2]).value)
    THEN Returned(<<>>)
    ELSE IF format_videos(inputs[3]).raised
    THEN Raised(get_channel_videos_except(format_videos(inputs[3]).exc))
    ELSE Returned(format_videos(inputs[3]).value)

\* what generate_historical_data gives for a channel, the readings of the
\* clock and the draws it receives
HistoryOf(channel, inputs) ==
    [subscriber_history |->
        [k \in 1..HISTORICAL_MONTHS |->
            [date |-> DateTable[inputs[k].hours, HISTORICAL_MONTHS - k + 1],
             subscribers |-> ScaledTable[channel.subscriber_count,
                                         HISTORICAL_MONTHS - k + 1, inputs[k].draw]]],
     view_history |->
        [k \in 1..HISTORICAL_MONTHS |->
            [date |-> DateTable[inputs[k].hours, HISTORICAL_MONTHS - k + 1],
             views |-> ScaledTable[channel.view_count,
                                   HISTORICAL_MONTHS - k + 1, inputs[k].draw]]],
     video_history |->
        [k \in 1..HISTORICAL_MONTHS |->
            [date |-> DateTable[inputs[k].hours, HISTORICAL_MONTHS - k + 1],
             videos |-> ScaledTable[channel.video_count,
                                    HISTORICAL_MONTHS - k + 1, inputs[k].draw]]]]

\* what get_comprehensive_stats gives a caller that runs alone, for its
\* identifier and everything it receives
StatsOf(identifier, inputs) ==
    LET info == InfoOf(WithoutOneAt(identifier), inputs)
        rest == SubSeq(inputs, info.used + 1, Len(inputs))
        last == SubSeq(inputs, Len(inputs) - HISTORICAL_MONTHS + 1, Len(inputs))
    IN  IF info.outcome.status = "raised"
        THEN Raised(get_comprehensive_stats_except(info.outcome.exc))
        ELSE IF VideosOf(rest).status = "raised"
        THEN Raised(get_comprehensive_stats_except(VideosOf(rest).exc))
        ELSE Returned(Bundle(info.outcome.value, VideosOf(rest).value,
                             HistoryOf(info.outcome.value, last)))

\* the caller of these locals has its answer from get_comprehensive_stats
Answer(frame) == frame.entry = "get_comprehensive_stats" /\ frame.pc = "done"

OtherFailure(response) == response.raises /\ response.exc # HttpError(403)

\* C19: a transport exception other than the quota/auth error in the by-ID
\* or the by-username lookup counts as no result: the next tier's request is
\* issued, and when a later lookup finds a channel the call returns it.
C19_TransportErrorIsNoResult ==
    InfoLog
        => \A k \in {1, 2} :
              (k <= Len(responses) /\ OtherFailure(responses[k]))
                  => /\ Len(calls) > k
                     /\ calls[k + 1] = IF k = 1
                                       THEN ChannelsListForUsername(channel_identifier)
                                       ELSE SearchList(channel_identifier)
                     /\ InfoFinished
                          => /\ Len(responses) > k
                             /\ IF Formattable(responses[Len(responses)])
                                THEN outcome = Returned(format_channel_data(
                                         responses[Len(responses)].body.items[1]))
                                ELSE /\ outcome.status = "raised"
                                     /\ ErrorKind(outcome.exc.msg) = "not found"

C19_Witness ==
    /\ InfoFinished
    /\ Len(responses) = 4
    /\ responses[1] = Raises(HttpError(500))
    /\ responses[2] = Raises(NetworkError)
    /\ outcome.status = "returned"
    /\ outcome.value.id = <<"X">>

\* the tier a request of get_channel_info belongs to
TierOf(request) ==
    IF request.api = "search.list" THEN "search"
    ELSE IF "forUsername" \in DOMAIN request THEN "by-username"
    ELSE "by-ID"

\* the order of the requests of one call: the search's detail lookup is the
\* second step of the third tier
TierOrder == <<"by-ID", "by-username", "search", "by-ID">>

\* C20: within a get_channel_info call the tiers are tried one after the
\* other in the order by-ID, by-username, search: a request is issued only
\* when every earlier one has been answered, at most one is unanswered, and
\* no tier is tried again.
C20_TiersInSequence ==
    InfoLog
        => /\ Len(calls) <= Len(TierOrder)
           /\ \A k \in 1..Len(calls) : TierOf(calls[k]) = TierOrder[k]
           /\ Len(responses) <= Len(calls)
           /\ Len(calls) <= Len(responses) + 1
           /\ pc \in {"tier1", "tier2", "tier3", "tier3_detail"}
                => Len(calls) = Len(responses) + 1
           /\ InfoFinished => Len(calls) = Len(responses)
           /\ pc = "tier1" => Len(calls) = 1
           /\ pc = "tier2" => Len(calls) = 2
           /\ pc = "tier3" => Len(calls) = 3
           /\ pc = "tier3_detail" => Len(calls) = 4

C20_Witness ==
    /\ pc = "tier3"
    /\ Len(calls) = 3
    /\ Len(responses) = 2
    /\ TierOf(calls[3]) = "search"
    /\ responses[1] = Body(NoItemsBody)
    /\ responses[2] = Raises(HttpError(404))

\* C21: get_comprehensive_stats resolves, fetches and synthesizes in that
\* order: get_channel_videos runs only once get_channel_info has returned,
\* and for the id of the resolved channel; generate_historical_data runs only
\* once get_channel_videos has returned; from then on nothing fails, every
\* step of the loop can be taken, and the call ends by returning a bundle.
C21_ResolveFetchSynthesize ==
    entry = "get_comprehensive_stats"
        => IF pc = "history"
           THEN /\ channel_data # NoChannel
                /\ calls = <<>>
                /\ result = NoOutcome
                /\ i \in 1..HISTORICAL_MONTHS
                /\ clock \in ClockHours
           ELSE /\ pc \in {"tier1", "tier2", "tier3", "tier3_detail", "after_get_channel_info"}
                    => /\ channel_data = NoChannel
                       /\ videos = <<>>
                       /\ i = 0 /\ subscriber_history = <<>>
                /\ pc \in {"uploads", "playlist", "details", "after_get_channel_videos"}
                    => /\ channel_data \in FormattedChannels
                       /\ calls[1] = ChannelsListContentDetails(channel_data.id)
                       /\ calls[1].id # argument
                       /\ i = 0 /\ subscriber_history = <<>>
                /\ pc = "after_generate_historical_data"
                    => /\ channel_data \in FormattedChannels
                       /\ calls = <<>>
                       /\ result = NoOutcome
                       /\ outcome.status = "returned"
                       /\ ENABLED get_comprehensive_stats_after_history
                /\ (pc = "done" /\ result.status = "raised") => subscriber_history = <<>>
                /\ (pc = "done" /\ subscriber_history # <<>>)
                    => result = Returned(Bundle(channel_data, videos, outcome.value))

C21_Witness ==
    /\ entry = "get_comprehensive_stats"
    /\ pc = "history"
    /\ i = 6
    /\ channel_data.id = <<"Y">>
    /\ Len(videos) = 1
    /\ argument = <<"@", "a">>

\* the literal fragments of the messages built at lines 96 and 100
QuotaText == "API quota exceeded or invalid API key. Please check your API key and quota."

ApiErrorText == "API Error: "

HasFragment(msg, text) == \E k \in 1..Len(msg) : msg[k] = [lit |-> text]

\* C22: for any identifier and any transport behaviour, get_channel_info
\* either returns a channel or raises a ValueError whose message says the
\* channel was not found; the "API quota exceeded ..." and "API Error: ..."
\* messages are never produced.
C22_ChannelOrNotFound ==
    InfoFinished
        => \/ /\ outcome.status = "returned"
              /\ DOMAIN outcome.value = DOMAIN format_channel_data(ChannelX)
           \/ /\ outcome.status = "raised"
              /\ outcome.exc.type = "ValueError"
              /\ outcome.exc = get_channel_info_except(ChannelNotFound(channel_identifier),
                                                       channel_identifier)
              /\ ErrorKind(outcome.exc.msg) = "not found"
              /\ ~HasFragment(outcome.exc.msg, QuotaText)
              /\ ~HasFragment(outcome.exc.msg, ApiErrorText)

\* every transport call of one lookup failed with HTTP status 403
C22_Witness ==
    /\ InfoFinished
    /\ Len(responses) = 3
    /\ \A k \in 1..3 : responses[k] = Raises(HttpError(403))
    /\ outcome.status = "raised"
    /\ ErrorKind(outcome.exc.msg) = "not found"

\* a record with one of its keys removed
Dropped(record, key) == [k \in DOMAIN record \ {key} |-> record[k]]

\* records _format_channel_data cannot format: a missing id, snippet or
\* statistics key, a snippet without its title, a count that is no integer
Unformattable ==
    {Dropped(ChannelX, key) : key \in {"id", "snippet", "statistics"}}
        \cup {[ChannelX EXCEPT !.snippet = Dropped(ChannelX.snippet, "title")]}
        \cup {[ChannelX EXCEPT !.statistics.viewCount = <<"1", ".", "5">>]}
        \cup {ChannelNoSnippet, ChannelBadCount}

\* a non-empty answer whose first record cannot be formatted
Malformed(response) ==
    HasItems(response) /\ response.body.items[1] \in Unformattable

\* _format_channel_data raises on each such record, and a lookup answered
\* with one has no result
UnformattableIsNoResult ==
    \A r \in Unformattable :
        /\ format_channel_data_raises(r)
        /\ ~try_lookup(Body(ItemsBody(<<r>>))).found

\* C23: when the by-ID or the by-username lookup answers with a non-empty
\* result whose first record cannot be formatted, get_channel_info does not
\* fail there: the tier counts as having no result and the next tier's
\* request is issued.
C23_UnformattableFallsThrough ==
    /\ UnformattableIsNoResult
    /\ InfoLog =>
        /\ (Len(responses) >= 1 /\ Malformed(responses[1]))
                => /\ Len(calls) >= 2
                   /\ calls[2] = ChannelsListForUsername(channel_identifier)
        /\ (Len(responses) >= 2 /\ Malformed(responses[2]))
                => /\ Len(calls) >= 3
                   /\ calls[3] = SearchList(channel_identifier)

\* both lookups answered with a record that cannot be formatted, and the
\* search is under way
C23_Witness ==
    /\ pc = "tier3"
    /\ Len(responses) = 2
    /\ responses[1] = Body(ItemsBody(<<ChannelNoSnippet>>))
    /\ responses[2] = Body(ItemsBody(<<ChannelBadCount>>))
    /\ Len(calls) = 3

\* the three histories hold one point per index, all three with one date
Aligned3(subs, views, vids) ==
    /\ Len(subs) = Len(views)
    /\ Len(views) = Len(vids)
    /\ \A k \in 1..Len(subs) : subs[k].date = views[k].date /\ views[k].date = vids[k].date

\* C24: in every bundle get_comprehensive_stats returns the three history
\* sequences are aligned: they have one length and at each index the
\* subscriber, view and video points carry the same date, so the dashboard's
\* historical export builds its columns row by row; the sequences are aligned
\* while the loop builds them, too.
C24_HistoriesAligned ==
    /\ Aligned3(subscriber_history, view_history, video_history)
    /\ (entry = "get_comprehensive_stats" /\ pc = "done" /\ result.status = "returned")
        => /\ Aligned3(result.value.subscriber_history, result.value.view_history,
                       result.value.video_history)
           /\ Len(result.value.subscriber_history) = HISTORICAL_MONTHS
           /\ ~DataFrame_raises(historical_data(result.value))
           /\ \A k \in 1..HISTORICAL_MONTHS :
                /\ historical_data(result.value).Datum[k] = result.value.view_history[k].date
                /\ historical_data(result.value).Datum[k] = result.value.video_history[k].date

\* a returned bundle whose histories were built across a midnight
C24_Witness ==
    /\ entry = "get_comprehensive_stats"
    /\ pc = "done"
    /\ result.status = "returned"
    /\ clock = 24
    /\ result.value.view_history[1].date # DateTable[24, HISTORICAL_MONTHS]
    /\ result.value.view_history[HISTORICAL_MONTHS].date = DateTable[24, 1]

\* 0 <= v < 1.14 * c + 1, in hundredths
WithinBound(v, c) == 0 <= v /\ 100 * v < 114 * c + 100

\* a property of every value generated so far, given with its metric's
\* current total and its index in the sequence (HISTORICAL_MONTHS is the
\* newest point's)
EveryGenerated(P(_, _, _)) ==
    \A k \in 1..Len(subscriber_history) :
        /\ P(subscriber_history[k].subscribers, channel_data.subscriber_count, k)
        /\ P(view_history[k].views, channel_data.view_count, k)
        /\ P(video_history[k].videos, channel_data.video_count, k)

\* the claim's bound with its newest point only
AsStated(v, c, k) ==
    /\ WithinBound(v, c)
    /\ v > c => k = HISTORICAL_MONTHS
    /\ c = 0 => v = 0

\* the bound with the three newest points
AsAmended(v, c, k) ==
    /\ WithinBound(v, c)
    /\ v > c => k \in (HISTORICAL_MONTHS - 2)..HISTORICAL_MONTHS
    /\ c = 0 => v = 0

\* the bound, for every total, month and draw of the table
TableWithinBound ==
    \A c \in Counts, months_back \in 1..HISTORICAL_MONTHS, d \in 1..Len(RandomDraws) :
        /\ WithinBound(ScaledTable[c, months_back, d], c)
        /\ ScaledTable[c, months_back, d] > c => months_back <= 3
        /\ c = 0 => ScaledTable[c, months_back, d] = 0

\* C25 as stated: with HISTORICAL_MONTHS = 12 every generated value v of a
\* metric with current total c satisfies 0 <= v < 1.14*c + 1, exceeds c only
\* at the newest point, and is 0 when c is 0.
C25_ExceedsOnlyAtNewest == EveryGenerated(AsStated)

\* C25 amended: with HISTORICAL_MONTHS = 12 every generated value v of a
\* metric with current total c satisfies 0 <= v < 1.14*c + 1, exceeds c only
\* at the three newest points (growth factors 0.85, 0.9 and 0.95), and is 0
\* when c is 0; the same for every total, month and draw of the table.
C25_ExceedsOnlyAtThreeNewest ==
    /\ EveryGenerated(AsAmended)
    /\ TableWithinBound

\* a finished history with a value above the current total two points before
\* the newest one, and a value below it at the oldest point
C25_Witness ==
    /\ HistoryFinished
    /\ channel_data.subscriber_count = 1000
    /\ subscriber_history[HISTORICAL_MONTHS - 2].subscribers > 1000
    /\ subscriber_history[1].subscribers < 1000

SessionKeys == {"channel_data", "videos", "subscriber_history", "view_history", "video_history"}

\* the step that ends a run of the dashboard's script after its load
Handled == pc = "done" /\ pc' = "idle"

\* C26: across any sequence of searches of the dashboard, a failed load
\* leaves st.session_state as it was (the stored channel, videos and three
\* histories are retained), a successful load replaces all five stored fields
\* with the values of the one bundle the call returned, and no other step
\* writes st.session_state, so the stored fields never mix two loads.
C26_LoadIsAllOrNothing ==
    [][/\ (Handled /\ result.status = "raised") => session_state' = session_state
       /\ (Handled /\ result.status = "returned")
            => /\ DOMAIN session_state' = SessionKeys
               /\ session_state'.channel_data = result.value.channel
               /\ session_state'.videos = result.value.videos
               /\ session_state'.subscriber_history = result.value.subscriber_history
               /\ session_state'.view_history = result.value.view_history
               /\ session_state'.video_history = result.value.video_history
       /\ ~Handled => session_state' = session_state]_vars

\* the second search failed and the first one's channel is still stored
C26_Witness ==
    /\ pc = "idle"
    /\ searches = 2
    /\ shown = "not found"
    /\ DOMAIN session_state = SessionKeys
    /\ session_state.channel_data.id = <<"Y">>
    /\ Len(session_state.subscriber_history) = HISTORICAL_MONTHS

====
